---- MODULE Spec2Model ----
(***************************************************************************)
(* State-machine model of src/new_search_gpu.py: the sketch store           *)
(* (SketchLoader / SketchBase / SellerSketch), the data market              *)
(* (DataMarket) and the greedy search loop (SearchEngine).                  *)
(*                                                                          *)
(* Python dicts are functions whose DOMAIN is the set of keys; the empty    *)
(* dict is <<>>.  Python lists and the column axis of a tensor are          *)
(* sequences; offsets and indices stay 0-based as in the source and are     *)
(* shifted by one only where a sequence is indexed.                         *)
(* A matrix is the sequence of its columns; a column is the token           *)
(* <<kind, name>> with kind in {"1","x","xx"} and name the feature name,    *)
(* name = <<tbl, c>>: column c (0-based) of the tbl-th table handed to the  *)
(* program.                                                                 *)
(* The numbers of the sketches are modelled apart, in SpecCalibrate          *)
(* (_calibrate on small tables) and SpecScore (the closed-form r_squared     *)
(* of one feature), with exact fractions in place of float32.               *)
(* SpecLive runs one call of start to its end under weak fairness,          *)
(* SpecAssemble the index bookkeeping of the direct-mode matrices, and      *)
(* SpecFold the join of _update_residual on small tables.                   *)
(***************************************************************************)
EXTENDS Integers, Sequences, FiniteSets, TLC

(* ------------------------------ bounds --------------------------------- *)
MaxBatch == 3       \* largest batch capacity estimate_batch_size may return
MaxFeatures == 2    \* most feature columns of one table
MaxTables == 3      \* most registration calls on a store in one run
MaxSellers == 2     \* most calls of register_seller in one run
MaxIter == 2        \* largest iteration budget given to start
MaxSingular == 1    \* most inversions that fail in one run

JoinKeys == {"k1", "k2"}

(* ------------------------------ helpers -------------------------------- *)
Min(a, b) == IF a < b THEN a ELSE b

MaxOf(S) == CHOOSE m \in S : \A x \in S : x <= m

EmptyDict == <<>>

\* d[k] = v
Put(d, k, v) == [x \in (DOMAIN d) \cup {k} |-> IF x = k THEN v ELSE d[x]]

\* del d[k]
Del(d, k) == [x \in (DOMAIN d) \ {k} |-> d[x]]

\* m[:, :n]
Take(m, n) == SubSeq(m, 1, Min(n, Len(m)))

\* m[:, n:]
Drop(m, n) == SubSeq(m, Min(n, Len(m)) + 1, Len(m))

\* Python's ordering of (start, id, offset) tuples
TupleLess(a, b) ==
    \/ a[1] < b[1]
    \/ a[1] = b[1] /\ a[2] < b[2]
    \/ a[1] = b[1] /\ a[2] = b[2] /\ a[3] < b[3]

RECURSIVE bisect_right(_, _, _, _)
bisect_right(a, x, lo, hi) ==
    IF lo < hi
    THEN LET mid == (lo + hi) \div 2
         IN  IF TupleLess(x, a[mid + 1])
             THEN bisect_right(a, x, lo, mid)
             ELSE bisect_right(a, x, mid + 1, hi)
    ELSE lo

\* line 126 were the new entry to go to the front of the list
insertFirst(a, x) == <<x>> \o a

\* bisect.insort(a, x)
insort(a, x) ==
    LET k == bisect_right(a, x, 0, Len(a))
    IN  SubSeq(a, 1, k) \o <<x>> \o SubSeq(a, k + 1, Len(a))

(* ------------------------------ tables --------------------------------- *)
\* the feature columns of the tbl-th table, in the order _calibrate sees them
FeatureNames(tbl, n) == [c \in 1..n |-> <<tbl, c - 1>>]

\* the matrix of one kind that _calibrate returns for the columns `names`
Matrix(kind, names) == [i \in 1..Len(names) |-> <<kind, names[i]>>]

(* ---------------------------- SketchLoader ----------------------------- *)
NewLoader(batch_size) ==
    [batch_size       |-> batch_size,
     sketch_1_batch   |-> EmptyDict,
     sketch_x_batch   |-> EmptyDict,
     sketch_x_x_batch |-> EmptyDict,
     num_batches      |-> 0]

\* lines 93-143 were every call to open a batch of its own and never to fill
\* the space left in the last batch
PlaceNewBatch(L, fim, seller_1, seller_x, seller_x_x, seller_id, cur_df_offset) ==
    LET bs == L.batch_size
        id == IF DOMAIN L.sketch_x_batch = {} THEN 0
              ELSE MaxOf(DOMAIN L.sketch_x_batch) + 1
    IN  [s1  |-> Put(L.sketch_1_batch, id, Take(seller_1, bs)),
         sx  |-> Put(L.sketch_x_batch, id, Take(seller_x, bs)),
         sxx |-> Put(L.sketch_x_x_batch, id, Take(seller_x_x, bs)),
         r1  |-> Drop(seller_1, bs),
         rx  |-> Drop(seller_x, bs),
         rxx |-> Drop(seller_x_x, bs),
         fim |-> Put(fim, id, << <<0, seller_id, cur_df_offset>> >>),
         off |-> cur_df_offset + bs]

\* First half of load_sketches for a seller store: place what fits.
Place(L, fim, seller_1, seller_x, seller_x_x, seller_id, cur_df_offset) ==
    LET bs == L.batch_size IN
    IF DOMAIN L.sketch_x_batch = {}
    THEN [s1  |-> Put(L.sketch_1_batch, 0, Take(seller_1, bs)),
          sx  |-> Put(L.sketch_x_batch, 0, Take(seller_x, bs)),
          sxx |-> Put(L.sketch_x_x_batch, 0, Take(seller_x_x, bs)),
          r1  |-> Drop(seller_1, bs),
          rx  |-> Drop(seller_x, bs),
          rxx |-> Drop(seller_x_x, bs),
          fim |-> Put(fim, 0, << <<0, seller_id, 0>> >>),
          off |-> bs]
    ELSE LET last  == MaxOf(DOMAIN L.sketch_x_batch)
             width == Len(L.sketch_x_batch[last])
             remaining_space == bs - width
             amount == Min(remaining_space, Len(seller_x))
         IN  IF remaining_space > 0
             THEN [s1  |-> Put(L.sketch_1_batch, last,
                               L.sketch_1_batch[last] \o Take(seller_1, amount)),
                   sx  |-> Put(L.sketch_x_batch, last,
                               L.sketch_x_batch[last] \o Take(seller_x, amount)),
                   sxx |-> Put(L.sketch_x_x_batch, last,
                               L.sketch_x_x_batch[last] \o Take(seller_x_x, amount)),
                   r1  |-> Drop(seller_1, amount),
                   rx  |-> Drop(seller_x, amount),
                   rxx |-> Drop(seller_x_x, amount),
                   fim |-> Put(fim, last,
                               insort(fim[last], <<width, seller_id, cur_df_offset>>)),
                   off |-> cur_df_offset + remaining_space]
             ELSE [s1  |-> Put(L.sketch_1_batch, last + 1, Take(seller_1, bs)),
                   sx  |-> Put(L.sketch_x_batch, last + 1, Take(seller_x, bs)),
                   sxx |-> Put(L.sketch_x_x_batch, last + 1, Take(seller_x_x, bs)),
                   r1  |-> Drop(seller_1, bs),
                   rx  |-> Drop(seller_x, bs),
                   rxx |-> Drop(seller_x_x, bs),
                   fim |-> Put(fim, last + 1, << <<0, seller_id, cur_df_offset>> >>),
                   off |-> cur_df_offset + bs]

\* the loader after the placement p: lines 93-145
Placed(L, p) ==
    [L EXCEPT !.sketch_1_batch   = p.s1,
              !.sketch_x_batch   = p.sx,
              !.sketch_x_x_batch = p.sxx,
              !.num_batches      = Cardinality(DOMAIN p.sx)]

\* the three files torch.save writes for batch prev_batch_id
SavedBatch(L, prev_batch_id) ==
    [sketch_1   |-> L.sketch_1_batch[prev_batch_id],
     sketch_x   |-> L.sketch_x_batch[prev_batch_id],
     sketch_x_x |-> L.sketch_x_x_batch[prev_batch_id]]

\* the loader after the three del statements
Released(L, prev_batch_id) ==
    [L EXCEPT !.sketch_1_batch   = Del(@, prev_batch_id),
              !.sketch_x_batch   = Del(@, prev_batch_id),
              !.sketch_x_x_batch = Del(@, prev_batch_id)]

\* Second half of load_sketches, after the placement p gave loader L1: the
\* spill of the last batch and the arguments of the recursive call
Continue(L1, p, dsk, to_disk) ==
    IF Len(p.rx) = 0
    THEN [more |-> FALSE, loader |-> L1, disk |-> dsk, err |-> ""]
    ELSE IF ~to_disk
         THEN [more |-> TRUE, loader |-> L1, disk |-> dsk, err |-> ""]
         ELSE LET prev_batch_id == L1.num_batches - 1 IN
              IF prev_batch_id \notin DOMAIN L1.sketch_x_batch
              THEN [more |-> FALSE, loader |-> L1, disk |-> dsk, err |-> "KeyError"]
              ELSE [more   |-> TRUE,
                    loader |-> Released(L1, prev_batch_id),
                    disk   |-> Put(dsk, prev_batch_id, SavedBatch(L1, prev_batch_id)),
                    err    |-> ""]

\* what an activation of load_sketches hands to the next one, or returns:
\* a holds its arguments, p the placement and c the outcome of Continue
Handover(a, p, c) ==
    [more |-> c.more, loader |-> c.loader, fim |-> p.fim, disk |-> c.disk,
     err |-> c.err, seller_1 |-> p.r1, seller_x |-> p.rx, seller_x_x |-> p.rxx,
     seller_id |-> a.seller_id, cur_df_offset |-> p.off, to_disk |-> FALSE]

AfterPlace(a, p) ==
    Handover(a, p, Continue(Placed(a.loader, p), p, a.disk, a.to_disk))

\* one activation of load_sketches up to its recursive call
Activation(a) ==
    AfterPlace(a, Place(a.loader, a.fim, a.seller_1, a.seller_x, a.seller_x_x,
                        a.seller_id, a.cur_df_offset))

\* the chain of activations of load_sketches
RECURSIVE load_sketches_rec(_)
load_sketches_next(r) == IF r.more THEN load_sketches_rec(r) ELSE r
load_sketches_rec(a) == load_sketches_next(Activation(a))

\* SketchLoader.load_sketches (seller store).  The result carries the loader,
\* the feature index map, the disk directory and the exception raised, if any.
load_sketches(L, fim, dsk, seller_1, seller_x, seller_x_x, seller_id, cur_df_offset, to_disk) ==
    load_sketches_rec([more |-> TRUE, loader |-> L, fim |-> fim, disk |-> dsk,
                       err |-> "", seller_1 |-> seller_1, seller_x |-> seller_x,
                       seller_x_x |-> seller_x_x, seller_id |-> seller_id,
                       cur_df_offset |-> cur_df_offset, to_disk |-> to_disk])

\* SketchLoader.get_sketches: the three matrices, or the exception raised
get_sketches(L, dsk, batch_id, from_disk) ==
    IF from_disk
    THEN IF batch_id \in DOMAIN dsk
         THEN [err |-> "", sketch_1 |-> dsk[batch_id].sketch_1,
               sketch_x |-> dsk[batch_id].sketch_x,
               sketch_x_x |-> dsk[batch_id].sketch_x_x]
         ELSE [err |-> "FileNotFoundError", sketch_1 |-> <<>>,
               sketch_x |-> <<>>, sketch_x_x |-> <<>>]
    ELSE IF batch_id \in DOMAIN L.sketch_x_batch
         THEN [err |-> "", sketch_1 |-> L.sketch_1_batch[batch_id],
               sketch_x |-> L.sketch_x_batch[batch_id],
               sketch_x_x |-> L.sketch_x_x_batch[batch_id]]
         ELSE [err |-> "KeyError", sketch_1 |-> <<>>,
               sketch_x |-> <<>>, sketch_x_x |-> <<>>]

get_num_batches(L) == L.num_batches

(* ----------------------------- SketchBase ------------------------------ *)
\* SketchBase.__init__; gpu and ram are what estimate_batch_size returned
NewBase(gpu, ram) ==
    [feature_index_mapping |-> EmptyDict,
     dfid_feature_mapping  |-> EmptyDict,
     gpu_batch_size        |-> gpu,
     ram_batch_size        |-> ram,
     sketch_loader         |-> NewLoader(gpu)]

\* the (gpu_batch_size, ram_batch_size) pairs estimate_batch_size may return:
\* equal without a GPU, independent with one
BatchSizes ==
    {<<g, r>> : g \in 1..MaxBatch, r \in 2..MaxBatch}

\* the capacity test were it to reject a table of exactly the capacity
TooLargeOffByOne(base, width) ==
    width >= Min(base.gpu_batch_size, base.ram_batch_size)

\* the capacity test of _register_df
TooLarge(base, width) ==
    width > Min(base.gpu_batch_size, base.ram_batch_size)

\* the store and the disk after load_sketches returned r
Loaded(base, r) ==
    [base |-> [base EXCEPT !.sketch_loader = r.loader,
                           !.feature_index_mapping = r.fim],
     disk |-> r.disk,
     err  |-> r.err]

\* SketchBase._register_df
register_df(base, dsk, df_id, seller_1, seller_x, seller_x_x, to_disk) ==
    IF TooLarge(base, Len(seller_x))
    THEN [base |-> base, disk |-> dsk, err |-> "ValueError"]
    ELSE Loaded(base,
                load_sketches(base.sketch_loader, base.feature_index_mapping, dsk,
                              seller_1, seller_x, seller_x_x, df_id, 0, to_disk))

\* SketchBase._calibrate, its effect on the table-feature directory
calibrate(base, df_id, ordered_columns) ==
    [base EXCEPT !.dfid_feature_mapping =
        IF df_id \notin DOMAIN @
        THEN Put(@, df_id, ordered_columns)
        ELSE Put(@, df_id, @[df_id] \o ordered_columns)]

\* the local bisect of get_df_by_feature_index
RECURSIVE bisect(_, _, _, _)
bisect(a, x, lo, hi) ==
    IF lo < hi
    THEN LET mid == (lo + hi) \div 2
         IN  IF x < a[mid + 1][1]
             THEN bisect(a, x, lo, mid)
             ELSE bisect(a, x, mid + 1, hi)
    ELSE lo

\* SketchBase.get_df_by_feature_index: (df_id, feature name) or the exception
get_df_by_feature_index(base, batch_id, feature_index) ==
    IF batch_id \notin DOMAIN base.feature_index_mapping
    THEN [err |-> "KeyError", df_id |-> -1, name |-> <<>>]
    ELSE LET entries == base.feature_index_mapping[batch_id]
             k       == bisect(entries, feature_index, 0, Len(entries)) - 1
             \* a[-1] is the last element
             index   == IF k < 0 THEN Len(entries) - 1 ELSE k
             e       == entries[index + 1]
             local_feature_index == feature_index - e[1] + e[3]
         IN  IF e[2] \notin DOMAIN base.dfid_feature_mapping
             THEN [err |-> "KeyError", df_id |-> e[2], name |-> <<>>]
             ELSE LET names == base.dfid_feature_mapping[e[2]]
                      \* a negative index counts from the end
                      pos == IF local_feature_index < 0
                             THEN local_feature_index + Len(names)
                             ELSE local_feature_index
                  IN  IF pos < 0 \/ pos >= Len(names)
                      THEN [err |-> "IndexError", df_id |-> e[2], name |-> <<>>]
                      ELSE [err |-> "", df_id |-> e[2], name |-> names[pos + 1]]

(* ----------------------------- SellerSketch ---------------------------- *)
\* the loop's state after _register_df returned r for partition a.i
Partitioned(a, r) ==
    [a EXCEPT !.base = r.base, !.disk = r.disk, !.err = r.err,
              !.more = (r.err = ""), !.i = a.i + 1]

\* _calibrate and _register_df for the columns cur_features
CalibrateAndRegister(base, dsk, df_id, cur_features) ==
    register_df(calibrate(base, df_id, cur_features), dsk, df_id,
                Matrix("1", cur_features), Matrix("x", cur_features),
                Matrix("xx", cur_features), FALSE)

\* one pass of the partition loop of register_this_seller; `a` holds the
\* loop's state before partition a.i and the result holds it after
Partition(a) ==
    IF a.i >= a.n
    THEN [a EXCEPT !.more = FALSE]
    ELSE Partitioned(a,
            CalibrateAndRegister(a.base, a.disk, a.df_id,
                SubSeq(a.feature_columns, a.i * a.per + 1,
                       Min((a.i + 1) * a.per, Len(a.feature_columns)))))

\* the partition loop of register_this_seller
RECURSIVE register_partitions(_)
register_partitions_next(r) == IF r.more THEN register_partitions(r) ELSE r
register_partitions(a) == register_partitions_next(Partition(a))

\* what register_this_seller leaves when the loop ended in state a
PartitionsDone(a) == [base |-> a.base, disk |-> a.disk, err |-> a.err]

\* SellerSketch.register_this_seller; the table has one join key column
register_this_seller(base, dsk, df_id, feature_columns) ==
    LET ram_batch_size == base.ram_batch_size
        ncols == Len(feature_columns) + 1
        features_per_partition == ram_batch_size - 1
    IN  IF ncols > ram_batch_size
        THEN IF features_per_partition = 0
             THEN [base |-> base, disk |-> dsk, err |-> "ZeroDivisionError"]
             ELSE PartitionsDone(register_partitions(
                      [more |-> TRUE, base |-> base, disk |-> dsk,
                       err |-> "", df_id |-> df_id,
                       feature_columns |-> feature_columns,
                       per |-> features_per_partition,
                       i |-> 0,
                       n |-> (Len(feature_columns) \div features_per_partition)
                             + (IF Len(feature_columns) % features_per_partition > 0
                                THEN 1 ELSE 0)]))
        ELSE CalibrateAndRegister(base, dsk, df_id, feature_columns)

(* ----------------------------- DataMarket ------------------------------ *)
\* seller_sketches with a store for join_key, built if there is none
WithBase(ss, join_key, sz) ==
    IF join_key \in DOMAIN ss
    THEN ss
    ELSE Put(ss, join_key, [sketch_base |-> NewBase(sz[1], sz[2]),
                            sellers     |-> EmptyDict])

\* the loop's state after register_this_seller returned r for join_key
SellerRegistered(a, ss, join_key, r) ==
    [a EXCEPT !.ss   = [ss EXCEPT ![join_key].sketch_base = r.base],
              !.disk = r.disk,
              !.err  = r.err,
              !.more = (r.err = ""),
              !.i    = IF r.err = "" THEN a.i + 1 ELSE a.i]

\* lines 605-624, ss holding the seller's entry for join_key
SellerSketched(a, ss, join_key) ==
    SellerRegistered(a, ss, join_key,
        register_this_seller(ss[join_key].sketch_base, a.disk, a.sid,
                             a.feature_columns))

\* lines 604-624, ss holding the store of join_key
SellerOnKey(a, ss, join_key) ==
    IF join_key \notin a.present
    THEN [a EXCEPT !.ss = ss, !.err = "KeyError", !.more = FALSE]
    ELSE SellerSketched(a,
            [ss EXCEPT ![join_key].sellers =
                Put(@, a.sid, [name |-> a.seller_name, df |-> a.feature_columns])],
            join_key)

\* one pass of the loop of register_seller over join_keys; `a` holds the loop's
\* state before join key a.i.  a.ss is seller_sketches; a.present are the join
\* keys that are columns of the table; a.sz is what estimate_batch_size returns
\* for a store built during the call.
SellerKey(a) ==
    IF a.i > Len(a.join_keys)
    THEN [a EXCEPT !.more = FALSE]
    ELSE SellerOnKey(a, WithBase(a.ss, a.join_keys[a.i], a.sz), a.join_keys[a.i])

\* the loop of register_seller over join_keys; the result's i is the position
\* at which the call stopped
RECURSIVE register_seller_keys(_)
register_seller_keys_next(r) == IF r.more THEN register_seller_keys(r) ELSE r
register_seller_keys(a) == register_seller_keys_next(SellerKey(a))

(* ----------------------------- SearchEngine ---------------------------- *)
\* R^2 values are held in hundredths
NegInf == -9999     \* float('-inf')
NaN == 9999         \* a NaN score
One == 100          \* the score 1
Floor == -100       \* the score -1 below which a masked batch is skipped

\* the scores a formula may produce for one candidate
RawScores == {NaN, -200, 0, 50, 80, One}

\* what one candidate contributes to a batch evaluation: whether the inversion
\* of its matrix raised, and its score.  With the inverse replaced by the zero
\* matrix the score is 1 - y_y/TSS, which is never positive.
DirectInputs ==
    {[singular |-> FALSE, r2 |-> s] : s \in RawScores}
    \cup {[singular |-> TRUE, r2 |-> s] : s \in {0}}

ResidualInputs == {[singular |-> FALSE, r2 |-> s] : s \in RawScores}

\* lines 914-915
CleanScore(s) == IF s = NaN THEN NegInf ELSE IF s >= One THEN NegInf ELSE s

\* the except branch of the inversion loop for feature a.i, lk being what
\* get_df_by_feature_index gave for the warning
Singular(a, lk) ==
    IF lk.err # ""
    THEN [a EXCEPT !.err = lk.err, !.more = FALSE]
    ELSE [a EXCEPT
            !.uf = Put(@, a.batch_id,
                       Append(IF a.batch_id \in DOMAIN a.uf
                              THEN a.uf[a.batch_id] ELSE <<>>, a.i)),
            !.i = a.i + 1]

\* one pass of the inversion loop over the features of a batch; a.uf is
\* unusable_features, a.err the exception raised while handling a singular
\* matrix, if any
Inversion(a) ==
    IF a.i >= Len(a.inp)
    THEN [a EXCEPT !.more = FALSE]
    ELSE IF a.inp[a.i + 1].singular
         THEN Singular(a, get_df_by_feature_index(a.base, a.batch_id, a.i))
         ELSE [a EXCEPT !.i = a.i + 1]

\* the inversion loop over the features of a batch
RECURSIVE mark_singular_rec(_)
mark_singular_next(r) == IF r.more THEN mark_singular_rec(r) ELSE r
mark_singular_rec(a) == mark_singular_next(Inversion(a))

mark_singular(uf, inp, base, batch_id) ==
    mark_singular_rec([more |-> TRUE, uf |-> uf, inp |-> inp, base |-> base,
                       batch_id |-> batch_id, i |-> 0, err |-> ""])

\* r_squared[idx] = -inf for every idx of a list of 0-based indices
MaskAll(r, idxs) ==
    [k \in 1..Len(r) |->
        IF \E j \in 1..Len(idxs) : idxs[j] = k - 1 THEN NegInf ELSE r[k]]

\* some index of the list lies outside the tensor
OutOfRange(r, idxs) == \E j \in 1..Len(idxs) : idxs[j] >= Len(r)

\* the unusable indices applied to the scores of batch batch_id
UnusableOf(uf, join_key, batch_id) ==
    IF batch_id \in DOMAIN uf THEN uf[batch_id] ELSE <<>>

\* torch.argmax: the 0-based index of the first maximal value
argmax(r) ==
    (CHOOSE k \in 1..Len(r) :
        /\ \A j \in 1..Len(r) : r[j] <= r[k]
        /\ \A j \in 1..(k - 1) : r[j] < r[k]) - 1

\* the indices already selected for this join key and batch
ExcludeIndices(aug, join_key, batch_id) ==
    IF join_key \in DOMAIN aug /\ batch_id \in DOMAIN aug[join_key]
    THEN aug[join_key][batch_id]
    ELSE <<>>

\* the candidate of a batch were the selected indices not masked
BatchCandidateUnmasked(r, exclude_indices) ==
    [skip |-> FALSE, index |-> argmax(r), score |-> r[argmax(r) + 1]]

\* the candidate a batch offers: its index, its score, and whether the batch
\* is skipped (`continue`)
BatchCandidate(r, exclude_indices) ==
    IF Len(exclude_indices) > 0
    THEN LET masked == MaskAll(r, exclude_indices)
             max_r2_index == argmax(masked)
         IN  [skip  |-> masked[max_r2_index + 1] < Floor,
              index |-> max_r2_index,
              score |-> r[max_r2_index + 1]]
    ELSE [skip |-> FALSE, index |-> argmax(r), score |-> r[argmax(r) + 1]]

(* ------------------------------- state --------------------------------- *)
VARIABLES
    gpu_ram,                    \* what estimate_batch_size returns on this machine
    seller_sketches,            \* DataMarket.seller_sketches: join key -> store
    disk,                       \* the files under disk_dir ('sketches/'), by batch id
    seller_id,                  \* DataMarket.seller_id
    seller_id_to_df_and_name,   \* DataMarket.seller_id_to_df_and_name (the names)
    buyer,                      \* the registered buyer (DataMarket.buyer_*)
    market_augplan_acc,         \* DataMarket.augplan_acc
    engine,                     \* the SearchEngine object
    run,                        \* the position of the call of SearchEngine.start
    tables,                     \* history: the tables handed to the program so far
    spilled,                    \* history: the batches written to disk
    last,                       \* history: the last registration call and its outcome
    frame,                      \* the tables and arguments a caller holds for _calibrate
    sketch                      \* what the calls of _calibrate and the scoring returned

vars == <<gpu_ram, seller_sketches, disk, seller_id, seller_id_to_df_and_name,
          buyer, market_augplan_acc, engine, run, tables, spilled, last,
          frame, sketch>>

storeVars == <<seller_sketches, disk, tables, spilled, last>>
marketVars == <<seller_id, seller_id_to_df_and_name>>
searchVars == <<buyer, market_augplan_acc, engine, run>>
sketchVars == <<frame, sketch>>

\* no table at hand, nothing calibrated
NoFrame == [held |-> FALSE]
NoSketch == [called |-> FALSE]

NoCall == [op |-> "none", keys |-> <<>>, stopped |-> 0, n |-> 0,
           err |-> "", to_disk |-> FALSE]

NoBuyer == [registered |-> FALSE, join_keys |-> <<>>, d |-> 0,
            fit_by_residual |-> FALSE]

NoEngine == [exists |-> FALSE, fit_by_residual |-> FALSE, augplan |-> <<>>,
             augplan_acc |-> <<>>, aug_seller_feature_ind |-> EmptyDict,
             unusable_features |-> EmptyDict,
             singular_seen |-> {}]   \* history: (join key, batch, index) found singular

Idle == [pc |-> "idle", i |-> 0, n |-> 0, kpos |-> 0, batch_id |-> 0,
         best_r_squared |-> 0, best_r_squared_ind |-> -1, best_batch_id |-> -1,
         best_join_key |-> "", err |-> "", at |-> "", returned |-> <<>>,
         returned_acc |-> <<>>, shadowed |-> FALSE, alive |-> FALSE,
         positive |-> FALSE, top |-> NegInf]

Init ==
    /\ gpu_ram \in BatchSizes
    /\ seller_sketches = EmptyDict
    /\ disk = EmptyDict
    /\ seller_id = 0
    /\ seller_id_to_df_and_name = <<>>
    /\ buyer = NoBuyer
    /\ market_augplan_acc = <<>>
    /\ engine = NoEngine
    /\ run = Idle
    /\ tables = <<>>
    /\ spilled = <<>>
    /\ last = NoCall
    /\ frame = NoFrame
    /\ sketch = NoSketch

\* the store of join key jk
Base(jk) == seller_sketches[jk].sketch_base

\* the batches a call wrote to disk, appended to the history
Spills(dsk, dsk2) ==
    LET ids == {b \in DOMAIN dsk2 : b \notin DOMAIN dsk \/ dsk2[b] # dsk[b]}
    IN  IF ids = {}
        THEN spilled
        ELSE Append(spilled, [batch_id |-> MaxOf(ids), saved |-> dsk2[MaxOf(ids)]])

(* ----------------- operations on one store (SketchBase API) ------------- *)
StoreKey == "k1"

\* SketchBase(join_key_domain) built by a caller
CreateBase ==
    /\ StoreKey \notin DOMAIN seller_sketches
    /\ seller_sketches' = Put(seller_sketches, StoreKey,
                              [sketch_base |-> NewBase(gpu_ram[1], gpu_ram[2]),
                               sellers     |-> EmptyDict])
    /\ UNCHANGED <<gpu_ram, sketchVars, disk, tables, spilled, last, marketVars, searchVars>>

\* the state after a registration call on the store returned r
StoreCall(r, op, n, to_disk) ==
    /\ seller_sketches' = [seller_sketches EXCEPT ![StoreKey].sketch_base = r.base]
    /\ disk' = r.disk
    /\ spilled' = Spills(disk, r.disk)
    /\ tables' = Append(tables, [df_id |-> Len(tables), n |-> n, err |-> r.err,
                                  keys |-> IF r.err = "" THEN {StoreKey} ELSE {}])
    /\ last' = [op |-> op, keys |-> <<StoreKey>>,
                stopped |-> IF r.err = "" THEN 2 ELSE 1,
                n |-> n, err |-> r.err, to_disk |-> to_disk]

\* _calibrate followed by _register_df(..., to_disk) on the store, for a new
\* table of n feature columns under a fresh df_id
RegisterDf(n, to_disk) ==
    /\ StoreKey \in DOMAIN seller_sketches
    /\ Len(tables) < MaxTables
    /\ StoreCall(register_df(calibrate(Base(StoreKey), Len(tables),
                                       FeatureNames(Len(tables) + 1, n)),
                             disk, Len(tables),
                             Matrix("1", FeatureNames(Len(tables) + 1, n)),
                             Matrix("x", FeatureNames(Len(tables) + 1, n)),
                             Matrix("xx", FeatureNames(Len(tables) + 1, n)),
                             to_disk),
                 "_register_df", n, to_disk)
    /\ UNCHANGED <<gpu_ram, sketchVars, marketVars, searchVars>>

\* SellerSketch(df, [key], ..., base, df_id).register_this_seller()
RegisterThisSeller(n) ==
    /\ StoreKey \in DOMAIN seller_sketches
    /\ Len(tables) < MaxTables
    /\ StoreCall(register_this_seller(Base(StoreKey), disk, Len(tables),
                                      FeatureNames(Len(tables) + 1, n)),
                 "register_this_seller", n, FALSE)
    /\ UNCHANGED <<gpu_ram, sketchVars, marketVars, searchVars>>

NextStore ==
    \/ CreateBase
    \/ \E n \in 1..MaxFeatures, to_disk \in BOOLEAN : RegisterDf(n, to_disk)
    \/ \E n \in 1..MaxFeatures : RegisterThisSeller(n)

SpecStore == Init /\ [][NextStore]_vars

\* the sum of f over the set S
RECURSIVE SumOver(_, _)
SumOver(S, f) ==
    IF S = {} THEN 0
    ELSE LET x == CHOOSE y \in S : TRUE IN f[x] + SumOver(S \ {x}, f)

(* ------------------------ DataMarket operations ------------------------ *)
\* the join_keys lists a caller passes
KeyLists == {<<"k1">>, <<"k2">>, <<"k1", "k2">>}

\* the join_keys lists a seller registers with
SellerKeyLists == {<<"k1">>, <<"k1", "k2">>}

\* the batch sizes of the stores of a market
MarketSizes == {<<1, 2>>, <<1, 3>>, <<2, 3>>}

Range(q) == {q[i] : i \in 1..Len(q)}

\* the state after the loop of register_seller ended in state r
SellerCall(r, n, join_keys) ==
    /\ seller_sketches' = r.ss
    /\ disk' = r.disk
    /\ spilled' = Spills(disk, r.disk)
    /\ seller_id_to_df_and_name' =
           IF r.err = "" THEN Append(seller_id_to_df_and_name, r.seller_name)
           ELSE seller_id_to_df_and_name
    /\ seller_id' = IF r.err = "" THEN seller_id + 1 ELSE seller_id
    /\ tables' = Append(tables, [df_id |-> seller_id, n |-> n, err |-> r.err,
                                  keys |-> {join_keys[j] : j \in 1..(r.i - 1)}])
    /\ last' = [op |-> "register_seller", keys |-> join_keys, stopped |-> r.i,
                n |-> n, err |-> r.err, to_disk |-> FALSE]

\* DataMarket.register_seller for a table of n feature columns; `missing` is
\* the position in join_keys of a key that is no column of the table (0: none)
RegisterSeller(n, join_keys, missing) ==
    /\ run.pc = "idle"
    /\ Len(tables) < MaxSellers
    /\ missing \in {0, Len(join_keys)}
    /\ SellerCall(register_seller_keys(
                      [more |-> TRUE, ss |-> seller_sketches, disk |-> disk,
                       err |-> "", sid |-> seller_id,
                       seller_name |-> Len(tables) + 1,
                       feature_columns |-> FeatureNames(Len(tables) + 1, n),
                       join_keys |-> join_keys,
                       present |-> {join_keys[j] : j \in (1..Len(join_keys)) \ {missing}},
                       sz |-> gpu_ram, i |-> 1]),
                  n, join_keys)
    /\ UNCHANGED <<gpu_ram, sketchVars, searchVars>>

\* DataMarket.register_buyer for a buyer table holding the target column
RegisterBuyer(join_keys, fit_by_residual) ==
    /\ run.pc = "idle"
    /\ ~buyer.registered
    /\ buyer' = [registered |-> TRUE, join_keys |-> join_keys, d |-> 1,
                 fit_by_residual |-> fit_by_residual]
    /\ market_augplan_acc' = Append(market_augplan_acc, "r2")
    /\ UNCHANGED <<gpu_ram, sketchVars, storeVars, marketVars, engine, run>>

(* ----------------------- SearchEngine operations ----------------------- *)
\* SearchEngine(data_market, fit_by_residual)
NewSearchEngine(fit_by_residual) ==
    /\ buyer.registered
    /\ ~engine.exists
    /\ engine' = [NoEngine EXCEPT !.exists = TRUE,
                                  !.fit_by_residual = fit_by_residual]
    /\ UNCHANGED <<gpu_ram, sketchVars, storeVars, marketVars, buyer, market_augplan_acc, run>>

\* the locals of search_one_iteration at its entry, in iteration i of start(n)
Searching(i, n) ==
    [Idle EXCEPT !.pc = "key", !.i = i, !.n = n, !.kpos = 1]

Raised(err, at) == [run EXCEPT !.pc = "raised", !.err = err, !.at = at]

\* SearchEngine.start(iter = n) up to the first join key of its first search
Start(n) ==
    /\ engine.exists
    /\ run.pc = "idle"
    /\ run' = Searching(0, n)
    /\ UNCHANGED <<gpu_ram, sketchVars, storeVars, marketVars, buyer, market_augplan_acc, engine>>

\* lines 790-799: the loop over the buyer's join keys reaches its next key
EnterJoinKey ==
    /\ run.pc = "key"
    /\ run.kpos <= Len(buyer.join_keys)
    /\ LET join_key == buyer.join_keys[run.kpos] IN
       run' = IF join_key \notin DOMAIN seller_sketches
              THEN Raised("KeyError", "get_seller_sketch_base_by_keys")
              ELSE IF get_num_batches(Base(join_key).sketch_loader) = 0
                   THEN [run EXCEPT !.kpos = @ + 1]
                   ELSE [run EXCEPT !.pc = "batch", !.batch_id = 0]
    /\ UNCHANGED <<gpu_ram, sketchVars, storeVars, marketVars, buyer, market_augplan_acc, engine>>

\* the position of the loops after batch run.batch_id of the current join key
NextBatch(r) ==
    IF r.batch_id + 1 < get_num_batches(Base(buyer.join_keys[r.kpos]).sketch_loader)
    THEN [r EXCEPT !.batch_id = @ + 1]
    ELSE [r EXCEPT !.pc = "key", !.kpos = @ + 1, !.batch_id = 0]

\* history of the batches seen in this iteration
Seen(r, shadow, alive, positive, top) ==
    [r EXCEPT !.shadowed = @ \/ shadow, !.alive = @ \/ alive,
              !.positive = @ \/ positive,
              !.top = IF top > @ THEN top ELSE @]

\* lines 923-946 were the running best to start at minus infinity
CompareAnyFinite(c, shadow, alive, positive, top) ==
    IF c.skip
    THEN Seen(run, shadow, alive, positive, top)
    ELSE IF c.score > (IF run.best_r_squared_ind = -1 THEN NegInf
                                                      ELSE run.best_r_squared)
         THEN Seen([run EXCEPT !.best_r_squared = c.score,
                               !.best_r_squared_ind = c.index,
                               !.best_batch_id = run.batch_id,
                               !.best_join_key = buyer.join_keys[run.kpos]],
                   shadow, alive, positive, top)
         ELSE Seen(run, shadow, alive, positive, top)

\* line 942 were the comparison with the running best not strict
CompareAtLeast(c, shadow, alive, positive, top) ==
    IF c.skip
    THEN Seen(run, shadow, alive, positive, top)
    ELSE IF c.score >= run.best_r_squared
         THEN Seen([run EXCEPT !.best_r_squared = c.score,
                               !.best_r_squared_ind = c.index,
                               !.best_batch_id = run.batch_id,
                               !.best_join_key = buyer.join_keys[run.kpos]],
                   shadow, alive, positive, top)
         ELSE Seen(run, shadow, alive, positive, top)

\* lines 923-946: the candidate c of a batch against the running best
Compare(c, shadow, alive, positive, top) ==
    IF c.skip
    THEN Seen(run, shadow, alive, positive, top)
    ELSE IF c.score > run.best_r_squared
         THEN Seen([run EXCEPT !.best_r_squared = c.score,
                               !.best_r_squared_ind = c.index,
                               !.best_batch_id = run.batch_id,
                               !.best_join_key = buyer.join_keys[run.kpos]],
                   shadow, alive, positive, top)
         ELSE Seen(run, shadow, alive, positive, top)

\* history: some candidate of the batch that is neither unusable nor selected
\* earlier has a finite score (r holds the scores with the unusable masked)
Alive(r, exclude_indices) ==
    \E k \in 1..Len(r) : MaskAll(r, exclude_indices)[k] # NegInf

\* history: some such candidate has a score above 0
Positive(r, exclude_indices) ==
    \E k \in 1..Len(r) : MaskAll(r, exclude_indices)[k] > 0

\* history: the highest score of the batch over the candidates that were not
\* selected earlier and whose own matrix was never found singular (own: the
\* indices found singular for this join key and batch)
Top(r, own, exclude_indices) ==
    MaxOf({NegInf} \cup
          {r[k] : k \in {j \in 1..Len(r) :
                            /\ j - 1 \notin own
                            /\ \A e \in 1..Len(exclude_indices) :
                                   exclude_indices[e] # j - 1}})

\* history: the unmasked arg-max of the batch is an index selected earlier
\* and beats the running best
Shadow(r, exclude_indices) ==
    /\ \E j \in 1..Len(exclude_indices) : exclude_indices[j] = argmax(r)
    /\ r[argmax(r) + 1] > run.best_r_squared

\* lines 913-946 for the cleaned scores r of the batch, uf being the unusable
\* indices of its batch id
Score(r, uf, own) ==
    IF OutOfRange(r, uf)
    THEN Raised("IndexError", "unusable_features")
    ELSE NextBatch(
             Compare(BatchCandidate(MaskAll(r, uf),
                         ExcludeIndices(engine.aug_seller_feature_ind,
                                        buyer.join_keys[run.kpos], run.batch_id)),
                     Shadow(MaskAll(r, uf),
                         ExcludeIndices(engine.aug_seller_feature_ind,
                                        buyer.join_keys[run.kpos], run.batch_id)),
                     Alive(MaskAll(r, uf),
                         ExcludeIndices(engine.aug_seller_feature_ind,
                                        buyer.join_keys[run.kpos], run.batch_id)),
                     Positive(MaskAll(r, uf),
                         ExcludeIndices(engine.aug_seller_feature_ind,
                                        buyer.join_keys[run.kpos], run.batch_id)),
                     Top(r, own,
                         ExcludeIndices(engine.aug_seller_feature_ind,
                                        buyer.join_keys[run.kpos], run.batch_id))))

\* lines 858-920 once the inversion loop ended in state m
Inverted(m, inp) ==
    /\ engine' = [engine EXCEPT
                     !.unusable_features = m.uf,
                     !.singular_seen = @ \cup
                         {<<buyer.join_keys[run.kpos], run.batch_id, k - 1>> :
                             k \in {j \in 1..Len(inp) :
                                        inp[j].singular /\ j - 1 <= m.i}}]
    /\ run' = IF m.err # ""
              THEN Raised(m.err, "inversion")
              ELSE Score([k \in 1..Len(inp) |-> CleanScore(inp[k].r2)],
                         UnusableOf(m.uf, buyer.join_keys[run.kpos], run.batch_id),
                         {t[3] : t \in {u \in engine'.singular_seen :
                                            /\ u[1] = buyer.join_keys[run.kpos]
                                            /\ u[2] = run.batch_id}})

\* the number of indices recorded in unusable_features
Recorded(uf) == SumOver(DOMAIN uf, [b \in DOMAIN uf |-> Len(uf[b])])

\* the inputs of one batch evaluation: one per feature of the batch
BatchInputs(width) ==
    {inp \in [1..width -> IF engine.fit_by_residual THEN ResidualInputs
                                                     ELSE DirectInputs] :
        Cardinality({k \in 1..width : inp[k].singular})
            + Recorded(engine.unusable_features) <= MaxSingular}

\* lines 802-952: one batch of the current join key is evaluated
EvaluateBatch ==
    /\ run.pc = "batch"
    /\ LET L == Base(buyer.join_keys[run.kpos]).sketch_loader IN
       IF get_sketches(L, disk, run.batch_id, FALSE).err # ""
       THEN /\ run' = Raised(get_sketches(L, disk, run.batch_id, FALSE).err,
                             "get_sketches")
            /\ UNCHANGED engine
       ELSE \E inp \in BatchInputs(Len(L.sketch_x_batch[run.batch_id])) :
                Inverted(mark_singular(engine.unusable_features, inp,
                                       Base(buyer.join_keys[run.kpos]), run.batch_id),
                         inp)
    /\ UNCHANGED <<gpu_ram, sketchVars, storeVars, marketVars, buyer, market_augplan_acc>>

\* aug_seller_feature_ind after lines 972-980
Selected(aug, join_key, batch_id, ind) ==
    IF join_key \notin DOMAIN aug
    THEN Put(aug, join_key, Put(EmptyDict, batch_id, <<ind>>))
    ELSE IF batch_id \notin DOMAIN aug[join_key]
         THEN [aug EXCEPT ![join_key] = Put(@, batch_id, <<ind>>)]
         ELSE [aug EXCEPT ![join_key][batch_id] = Append(@, ind)]

\* _update_residual(join_key, seller_id, best_feature): the exception it
\* raises, if any
update_residual_err(join_key, sid, best_feature) ==
    IF engine.fit_by_residual /\ ~buyer.fit_by_residual
    THEN "TypeError"       \* buyer_dataset_for_residual is None
    ELSE IF sid \notin DOMAIN seller_sketches[join_key].sellers
    THEN "KeyError"
    ELSE IF best_feature \notin Range(seller_sketches[join_key].sellers[sid].df)
         THEN "KeyError"
         ELSE IF ~engine.fit_by_residual /\ buyer.fit_by_residual
              THEN "KeyError"   \* the residual table has no target column
              ELSE ""

\* lines 981-988 of start, lk being what get_df_by_feature_index returned
Augment(lk) ==
    IF lk.err # ""
    THEN /\ run' = Raised(lk.err, "get_df_by_feature_index")
         /\ engine' = [engine EXCEPT !.aug_seller_feature_ind =
                Selected(@, run.best_join_key, run.best_batch_id,
                         run.best_r_squared_ind)]
         /\ UNCHANGED <<buyer, market_augplan_acc>>
    ELSE IF lk.df_id >= Len(seller_id_to_df_and_name)
    THEN /\ run' = Raised("IndexError", "seller_id_to_df_and_name")
         /\ engine' = [engine EXCEPT !.aug_seller_feature_ind =
                Selected(@, run.best_join_key, run.best_batch_id,
                         run.best_r_squared_ind)]
         /\ UNCHANGED <<buyer, market_augplan_acc>>
    ELSE /\ engine' = [engine EXCEPT
                !.aug_seller_feature_ind =
                    Selected(@, run.best_join_key, run.best_batch_id,
                             run.best_r_squared_ind),
                !.augplan = Append(@, <<lk.df_id, run.i + 1,
                                        seller_id_to_df_and_name[lk.df_id + 1],
                                        lk.name>>)]
         /\ IF update_residual_err(run.best_join_key, lk.df_id, lk.name) # ""
            THEN /\ run' = Raised(update_residual_err(run.best_join_key,
                                                       lk.df_id, lk.name),
                                   "_update_residual")
                 /\ UNCHANGED <<buyer, market_augplan_acc>>
            ELSE /\ buyer' = [buyer EXCEPT !.d = IF buyer.fit_by_residual
                                                  THEN @ ELSE @ + 1]
                 /\ market_augplan_acc' = Append(market_augplan_acc, "r2")
                 /\ run' = IF run.i + 1 < run.n
                           THEN Searching(run.i + 1, run.n)
                           ELSE [run EXCEPT !.pc = "done", !.i = @ + 1,
                                    !.returned_acc = engine.augplan_acc,
                                    !.returned = Append(engine.augplan,
                                        <<lk.df_id, run.i + 1,
                                          seller_id_to_df_and_name[lk.df_id + 1],
                                          lk.name>>)]

\* lines 968-970 were the loop of start to go on to its next iteration after
\* an iteration that found no feature
SelectContinue ==
    /\ run.pc = "key"
    /\ run.kpos > Len(buyer.join_keys)
    /\ IF run.best_r_squared_ind = -1
       THEN /\ run' = IF run.i + 1 < run.n
                      THEN Searching(run.i + 1, run.n)
                      ELSE [run EXCEPT !.pc = "done", !.returned = engine.augplan,
                                       !.returned_acc = engine.augplan_acc]
            /\ UNCHANGED <<buyer, market_augplan_acc, engine>>
       ELSE Augment(get_df_by_feature_index(Base(run.best_join_key),
                                            run.best_batch_id,
                                            run.best_r_squared_ind))
    /\ UNCHANGED <<gpu_ram, sketchVars, storeVars, marketVars>>

\* lines 954-989: search_one_iteration returns and start handles its result
Select ==
    /\ run.pc = "key"
    /\ run.kpos > Len(buyer.join_keys)
    /\ IF run.best_r_squared_ind = -1
       THEN /\ run' = [run EXCEPT !.pc = "done", !.returned = engine.augplan,
                                   !.returned_acc = engine.augplan_acc]
            /\ UNCHANGED <<buyer, market_augplan_acc, engine>>
       ELSE Augment(get_df_by_feature_index(Base(run.best_join_key),
                                            run.best_batch_id,
                                            run.best_r_squared_ind))
    /\ UNCHANGED <<gpu_ram, sketchVars, storeVars, marketVars>>

Next ==
    \/ \E n \in 1..MaxFeatures, join_keys \in SellerKeyLists, missing \in 0..2 :
           RegisterSeller(n, join_keys, missing)
    \/ \E join_keys \in KeyLists, fit_by_residual \in BOOLEAN :
           RegisterBuyer(join_keys, fit_by_residual)
    \/ \E fit_by_residual \in BOOLEAN : NewSearchEngine(fit_by_residual)
    \/ \E n \in 1..MaxIter : Start(n)
    \/ EnterJoinKey
    \/ EvaluateBatch
    \/ Select

InitMarket == Init /\ gpu_ram \in MarketSizes

Spec == InitMarket /\ [][Next]_vars

\* A market of one machine size and one seller table whose registrations
\* succeed, for the run of
\* start to its end: Python executes the statements of start and of
\* search_one_iteration one after the other, so the steps of the call are
\* taken as long as they are enabled.
InitLive == Init /\ gpu_ram = <<1, MaxBatch - 1>>

NextLive ==
    \/ \E n \in 1..MaxFeatures, join_keys \in SellerKeyLists :
           tables = <<>> /\ RegisterSeller(n, join_keys, 0)
    \/ \E join_keys \in KeyLists, fit_by_residual \in BOOLEAN :
           RegisterBuyer(join_keys, fit_by_residual)
    \/ \E fit_by_residual \in BOOLEAN : NewSearchEngine(fit_by_residual)
    \/ \E n \in 1..MaxIter : Start(n)
    \/ EnterJoinKey
    \/ EvaluateBatch
    \/ Select

SpecLive ==
    InitLive /\ [][NextLive]_vars /\ WF_vars(EnterJoinKey \/ EvaluateBatch \/ Select)

(* ----------------------- _calibrate on table data ----------------------- *)
\* A data frame is the sequence of its rows; a row is [key |-> the value of
\* each join key column, v |-> the values of the feature columns in column
\* order].  The matrices _calibrate returns are kept row by row here: one
\* sequence of column values per row of the index.  A number is the fraction
\* <<numerator, denominator>> in lowest terms with a positive denominator.
MaxRows == 2        \* most rows of a table handed to _calibrate
MaxKey == 3         \* key values are 1..MaxKey

Abs(a) == IF a < 0 THEN -a ELSE a

RECURSIVE GCD(_, _)
GCD(a, b) == IF b = 0 THEN a ELSE GCD(b, a % b)

\* n / d for d > 0
Frac(n, d) == <<n \div GCD(Abs(n), d), d \div GCD(Abs(n), d)>>

\* the number of feature columns of df
Width(df) == Len(df[1].v)

\* the group key of a row under groupby(join_keys)
KeyOf(row, join_keys) == [i \in 1..Len(join_keys) |-> row.key[join_keys[i]]]

\* the rows of df in the group g
GroupRows(df, join_keys, g) ==
    {i \in 1..Len(df) : KeyOf(df[i], join_keys) = g}

Groups(df, join_keys) == {KeyOf(df[i], join_keys) : i \in 1..Len(df)}

\* df.groupby(join_keys).sum(): group key -> the sum of every column
groupby_sum(df, join_keys) ==
    [g \in Groups(df, join_keys) |->
        [c \in 1..Width(df) |->
            SumOver(GroupRows(df, join_keys, g),
                    [i \in GroupRows(df, join_keys, g) |-> df[i].v[c]])]]

\* df.groupby(join_keys).size()
groupby_size(df, join_keys) ==
    [g \in Groups(df, join_keys) |-> Cardinality(GroupRows(df, join_keys, g))]

\* line 294: df[non_join_key_columns] ** 2 with the join keys kept
df_squared(df) ==
    [i \in 1..Len(df) |->
        [key |-> df[i].key, v |-> [c \in 1..Width(df) |-> df[i].v[c] * df[i].v[c]]]]

\* itertools.combinations(ordered_columns, 2), by column position
PairsBefore(n, p) ==
    {q \in (1..n) \X (1..n) : q[1] < q[2] /\ (q[1] < p[1] \/ (q[1] = p[1] /\ q[2] < p[2]))}

combinations(n) ==
    [k \in 1..((n * (n - 1)) \div 2) |->
        CHOOSE p \in (1..n) \X (1..n) :
            p[1] < p[2] /\ Cardinality(PairsBefore(n, p)) = k - 1]

\* lines 311-315: the products of every pair of columns with the join keys kept
df_cross(df) ==
    [i \in 1..Len(df) |->
        [key |-> df[i].key,
         v   |-> [k \in 1..Len(combinations(Width(df))) |->
                     df[i].v[combinations(Width(df))[k][1]]
                         * df[i].v[combinations(Width(df))[k][2]]]]]

\* seller_sum.div(seller_count['count'], axis=0) when normalized, the sums as
\* they are otherwise
div(sums, count, normalized) ==
    [g \in DOMAIN sums |->
        [c \in 1..Len(sums[g]) |->
            Frac(sums[g][c], IF normalized THEN count[g] ELSE 1)]]

\* lines 322-327: seller_count.assign(count=1) when normalized
seller_count(df, join_keys, normalized) ==
    [g \in Groups(df, join_keys) |->
        IF normalized THEN 1 ELSE groupby_size(df, join_keys)[g]]

\* the cartesian product of the ranges, the first range varying slowest, as
\* pd.MultiIndex.from_product enumerates it
RECURSIVE from_product(_)
from_product(index_ranges) ==
    IF Len(index_ranges) = 0 THEN << <<>> >>
    ELSE [r \in 1..(Len(index_ranges[1]) * Len(from_product(Tail(index_ranges)))) |->
             <<index_ranges[1][((r - 1) \div Len(from_product(Tail(index_ranges)))) + 1]>>
                 \o from_product(Tail(index_ranges))
                        [((r - 1) % Len(from_product(Tail(index_ranges)))) + 1]]

\* lines 342-343 were the index to enumerate every domain in ascending order
multi_index_sorted(key_domains, join_keys) ==
    from_product([i \in 1..Len(join_keys) |->
                     SortSeq(key_domains[join_keys[i]], LAMBDA a, b : a < b)])

\* lines 342-343
multi_index(key_domains, join_keys) ==
    from_product([i \in 1..Len(join_keys) |-> key_domains[join_keys[i]]])

\* grouped.reindex(index, fill_value=fill).values, for rows of `width` columns
reindex(grouped, index, fill, width) ==
    [r \in 1..Len(index) |->
        IF index[r] \in DOMAIN grouped THEN grouped[index[r]]
        ELSE [c \in 1..width |-> fill]]

\* line 356: seller_count.reindex(multi_index, fill_value=1), a column of counts
reindex_count(count, index) ==
    [r \in 1..Len(index) |-> IF index[r] \in DOMAIN count THEN count[index[r]] ELSE 1]

\* line 370: seller_count_tensor.expand(-1, num_features)
expand(count, num_features) ==
    [r \in 1..Len(count) |-> [c \in 1..num_features |-> count[r]]]

None == <<"None">>

\* what _calibrate returns (lines 293-372); the update of dfid_feature_mapping
\* (lines 300-303) is the operator calibrate above
calibrate_tensors(df, num_features, key_domains, join_keys, normalized, fit_by_residual, is_buyer) ==
    [seller_x   |-> reindex(div(groupby_sum(df, join_keys),
                                groupby_size(df, join_keys), normalized),
                            multi_index(key_domains, join_keys),
                            Frac(0, 1), Width(df)),
     seller_x_x |-> reindex(div(groupby_sum(df_squared(df), join_keys),
                                groupby_size(df, join_keys), normalized),
                            multi_index(key_domains, join_keys),
                            Frac(0, 1), Width(df)),
     seller_1   |-> expand(reindex_count(seller_count(df, join_keys, normalized),
                                         multi_index(key_domains, join_keys)),
                           num_features),
     seller_x_y |-> IF ~fit_by_residual /\ is_buyer
                    THEN reindex(div(groupby_sum(df_cross(df), join_keys),
                                     groupby_size(df, join_keys), normalized),
                                 multi_index(key_domains, join_keys),
                                 Frac(0, 1), Len(combinations(Width(df))))
                    ELSE None]

(* ------------------- calls of _calibrate on small tables ---------------- *)
Values == {-1, 2}

\* the join_keys lists of a table
FrameKeyLists == {<<"k1">>, <<"k1", "k2">>}

\* the key domains of a store: k1 in two orders
FrameDomains ==
    {[k1 |-> <<1, 2>>, k2 |-> <<1, 2>>], [k1 |-> <<2, 1>>, k2 |-> <<1, 2>>]}

\* the rows of a table with join keys join_keys and n feature columns
RowsOf(join_keys, n) ==
    [key : [Range(join_keys) -> 1..MaxKey], v : [1..n -> Values]]

\* the tables of 1..MaxRows rows
Frames(join_keys, n) ==
    UNION {[1..len -> RowsOf(join_keys, n)] : len \in 1..MaxRows}

InitCalibrate ==
    /\ gpu_ram = <<MaxBatch, MaxBatch>>
    /\ seller_sketches = EmptyDict
    /\ disk = EmptyDict
    /\ seller_id = 0
    /\ seller_id_to_df_and_name = <<>>
    /\ buyer = NoBuyer
    /\ market_augplan_acc = <<>>
    /\ engine = NoEngine
    /\ run = Idle
    /\ tables = <<>>
    /\ spilled = <<>>
    /\ last = NoCall
    /\ \E join_keys \in FrameKeyLists, n \in 1..MaxFeatures :
           frame \in [held : {TRUE}, df : Frames(join_keys, n),
                      join_keys : {join_keys}, key_domains : FrameDomains,
                      normalized : BOOLEAN, fit_by_residual : BOOLEAN,
                      is_buyer : BOOLEAN]
    /\ sketch = NoSketch

\* base._calibrate(df_id, df, num_features, key_domains, join_keys, normalized,
\* fit_by_residual, is_buyer) with num_features as the callers compute it
Calibrate ==
    /\ frame.held
    /\ ~sketch.called
    /\ sketch' = [called |-> TRUE,
                  out |-> calibrate_tensors(frame.df, Width(frame.df),
                                            frame.key_domains, frame.join_keys,
                                            frame.normalized, frame.fit_by_residual,
                                            frame.is_buyer)]
    /\ UNCHANGED <<gpu_ram, frame, storeVars, marketVars, searchVars>>

NextCalibrate == Calibrate

SpecCalibrate == InitCalibrate /\ [][NextCalibrate]_vars

(* -------------------- the closed-form score of a batch ------------------ *)
\* Arithmetic on fractions.  <<0, 0>> stands for every value that is not a
\* finite number (nan, inf, -inf): a division by zero gives it and every
\* operation on it gives it again.
NotFinite == <<0, 0>>

Finite(a) == a[2] # 0

\* the fraction n / d in lowest terms, for any d
Quotient(n, d) ==
    IF d = 0 THEN NotFinite
    ELSE IF d < 0 THEN Frac(-n, -d)
    ELSE Frac(n, d)

Whole(n) == <<n, 1>>

Plus(a, b) ==
    IF Finite(a) /\ Finite(b) THEN Quotient(a[1] * b[2] + b[1] * a[2], a[2] * b[2])
    ELSE NotFinite

Minus(a, b) ==
    IF Finite(a) /\ Finite(b) THEN Quotient(a[1] * b[2] - b[1] * a[2], a[2] * b[2])
    ELSE NotFinite

Times(a, b) ==
    IF Finite(a) /\ Finite(b) THEN Quotient(a[1] * b[1], a[2] * b[2])
    ELSE NotFinite

Over(a, b) ==
    IF Finite(a) /\ Finite(b) THEN Quotient(a[1] * b[2], a[2] * b[1])
    ELSE NotFinite

\* torch.sum(col, dim=0) over the rows 1..n of a column of fractions
RECURSIVE torch_sum(_, _)
torch_sum(col, n) ==
    IF n = 0 THEN Whole(0) ELSE Plus(torch_sum(col, n - 1), col[n])

\* the first column of a matrix of fractions, and of the matrix of counts
Column(M) == [r \in 1..Len(M) |-> M[r][1]]
CountColumn(M) == [r \in 1..Len(M) |-> Whole(M[r][1])]

\* the elementwise product of two columns
Product(a, b) == [r \in 1..Len(a) |-> Times(a[r], b[r])]

\* lines 811-816 and 881-887: the sums over the domain rows that both modes
\* start from, for a buyer sketch b with one column and a batch s of one
\* feature
Moments(b, s) ==
    [c   |-> torch_sum(Product(CountColumn(b.seller_1), CountColumn(s.seller_1)),
                       Len(s.seller_1)),
     x   |-> torch_sum(Product(Column(s.seller_x), CountColumn(b.seller_1)),
                       Len(s.seller_x)),
     x_x |-> torch_sum(Product(Column(s.seller_x_x), CountColumn(b.seller_1)),
                       Len(s.seller_x_x)),
     x_y |-> torch_sum(Product(Column(s.seller_x), Column(b.seller_x)),
                       Len(s.seller_x)),
     y_y |-> torch_sum(Product(Column(b.seller_x_x), CountColumn(s.seller_1)),
                       Len(b.seller_x_x)),
     y   |-> torch_sum(Product(Column(b.seller_x), CountColumn(s.seller_1)),
                       Len(b.seller_x))]

\* lines 906-912
ResidualScore(m, slope, intercept, TSS) ==
    Minus(Whole(1),
          Over(Minus(Plus(Plus(m.y_y, Times(m.c, Times(intercept, intercept))),
                          Times(Times(slope, slope), m.x_x)),
                     Times(Whole(2),
                           Minus(Plus(Times(slope, m.x_y), Times(intercept, m.y)),
                                 Times(Times(slope, intercept), m.x)))),
               TSS))

\* lines 903-906
ResidualLine(m, x_mean, y_mean, slope) ==
    ResidualScore(m, slope, Minus(y_mean, Times(slope, x_mean)),
                  Plus(Minus(m.y_y, Times(Times(Whole(2), y_mean), m.y)),
                       Times(m.c, Times(y_mean, y_mean))))

\* lines 895-903: S_xy / S_xx
ResidualSlope(m, x_mean, y_mean) ==
    Over(Plus(Minus(Minus(m.x_y, Times(x_mean, m.y)), Times(m.x, y_mean)),
              Times(Times(m.c, x_mean), y_mean)),
         Plus(Minus(m.x_x, Times(Times(Whole(2), x_mean), m.x)),
              Times(m.c, Times(x_mean, x_mean))))

ResidualMeans(m, x_mean, y_mean) ==
    ResidualLine(m, x_mean, y_mean, ResidualSlope(m, x_mean, y_mean))

\* lines 880-912: r_squared of the one feature when fit_by_residual
r_squared_residual(m) == ResidualMeans(m, Over(m.x, m.c), Over(m.y, m.c))

\* line 814: x_x[x_x == 0] = 1
NonZero(x_x) == IF x_x = Whole(0) THEN Whole(1) ELSE x_x

\* lines 818-820: XTX for d = 1, as <<row 0, row 1>>
XTX(m) == << <<m.c, m.x>>, <<m.x, NonZero(m.x_x)>> >>

\* lines 829-831: XTY for d = 1 and y_ind = 0
XTY(m) == <<m.y, m.x_y>>

\* the determinant of a 2 x 2 matrix
Det(A) == Minus(Times(A[1][1], A[2][2]), Times(A[1][2], A[2][1]))

\* lines 856-866: torch.linalg.inv(XTX[i]), the zero matrix when singular
Inverse(A, det) ==
    IF det = Whole(0)
    THEN << <<Whole(0), Whole(0)>>, <<Whole(0), Whole(0)>> >>
    ELSE << <<Over(A[2][2], det), Over(Minus(Whole(0), A[1][2]), det)>>,
            <<Over(Minus(Whole(0), A[2][1]), det), Over(A[1][1], det)>> >>

\* line 868: torch.bmm(inverses, XTY)
bmm(inv, v) ==
    <<Plus(Times(inv[1][1], v[1]), Times(inv[1][2], v[2])),
      Plus(Times(inv[2][1], v[1]), Times(inv[2][2], v[2]))>>

\* lines 869-874: RSS
RSS(m, A, v, res) ==
    Minus(Plus(m.y_y,
               Plus(Plus(Times(Times(res[1], res[1]), A[1][1]),
                         Times(Times(res[1], res[2]), A[1][2])),
                    Plus(Times(Times(res[2], res[1]), A[2][1]),
                         Times(Times(res[2], res[2]), A[2][2])))),
          Times(Whole(2), Plus(Times(res[1], v[1]), Times(res[2], v[2]))))

\* lines 817 and 875: 1 - RSS / TSS with TSS = y_y - y * y / c
DirectScore(m, A, v, res) ==
    Minus(Whole(1),
          Over(RSS(m, A, v, res), Minus(m.y_y, Over(Times(m.y, m.y), m.c))))

DirectSolve(m, A, v) == DirectScore(m, A, v, bmm(Inverse(A, Det(A)), v))

\* lines 804-875: r_squared of the one feature when not fit_by_residual
r_squared_direct(m) == DirectSolve(m, XTX(m), XTY(m))

(* ------------- scoring one seller feature against one target ------------ *)
\* the key domains of the buyer and the seller: the tables' join key is k1
ScoreDomains == {[k1 |-> <<1, 2>>], [k1 |-> <<1, 2, 3>>]}

Unsketched == [seller_x |-> <<>>, seller_x_x |-> <<>>, seller_1 |-> <<>>,
               seller_x_y |-> None]

InitScore ==
    /\ gpu_ram = <<MaxBatch, MaxBatch>>
    /\ seller_sketches = EmptyDict
    /\ disk = EmptyDict
    /\ seller_id = 0
    /\ seller_id_to_df_and_name = <<>>
    /\ buyer = NoBuyer
    /\ market_augplan_acc = <<>>
    /\ engine = NoEngine
    /\ run = Idle
    /\ tables = <<>>
    /\ spilled = <<>>
    /\ last = NoCall
    /\ frame \in [held : {TRUE}, buyer_df : Frames(<<"k1">>, 1),
                  seller_df : Frames(<<"k1">>, 1), join_keys : {<<"k1">>},
                  key_domains : ScoreDomains, fit_by_residual : BOOLEAN]
    /\ sketch = [called |-> FALSE, calibrated |-> {}, scored |-> FALSE,
                 buyer |-> Unsketched, seller |-> Unsketched,
                 r_squared |-> NotFinite]

\* register_buyer with a table of the join key and the target column, the
\* default fit_by_residual=False: BuyerSketch.register_this_buyer (line 518)
CalibrateBuyer ==
    /\ frame.held
    /\ "buyer" \notin sketch.calibrated
    /\ sketch' = [sketch EXCEPT
                    !.calibrated = @ \cup {"buyer"},
                    !.buyer = calibrate_tensors(frame.buyer_df, Width(frame.buyer_df),
                                                frame.key_domains, frame.join_keys,
                                                TRUE, FALSE, TRUE)]
    /\ UNCHANGED <<gpu_ram, frame, storeVars, marketVars, searchVars>>

\* register_seller with a table of the join key and one feature column:
\* SellerSketch.register_this_seller (line 458)
CalibrateSeller ==
    /\ frame.held
    /\ "seller" \notin sketch.calibrated
    /\ sketch' = [sketch EXCEPT
                    !.calibrated = @ \cup {"seller"},
                    !.seller = calibrate_tensors(frame.seller_df, Width(frame.seller_df),
                                                 frame.key_domains, frame.join_keys,
                                                 TRUE, FALSE, FALSE)]
    /\ UNCHANGED <<gpu_ram, frame, storeVars, marketVars, searchVars>>

\* the r_squared search_one_iteration computes for the batch of the one seller
\* feature, in the mode of the engine
ScoreBatch ==
    /\ sketch.calibrated = {"buyer", "seller"}
    /\ ~sketch.scored
    /\ sketch' = [sketch EXCEPT
                    !.scored = TRUE,
                    !.r_squared =
                        IF frame.fit_by_residual
                        THEN r_squared_residual(Moments(sketch.buyer, sketch.seller))
                        ELSE r_squared_direct(Moments(sketch.buyer, sketch.seller))]
    /\ UNCHANGED <<gpu_ram, frame, storeVars, marketVars, searchVars>>

NextScore ==
    \/ CalibrateBuyer
    \/ CalibrateSeller
    \/ ScoreBatch

SpecScore == InitScore /\ [][NextScore]_vars

(* ======================= properties of the store ======================= *)
Loader(jk) == Base(jk).sketch_loader

\* the columns of the batch that batch id b denotes in the store of jk
BatchOf(jk, b) ==
    IF b \in DOMAIN Loader(jk).sketch_x_batch THEN Loader(jk).sketch_x_batch[b]
    ELSE IF b \in DOMAIN disk THEN disk[b].sketch_x
    ELSE <<>>

\* the width of the run that entry k of batch b's index records
RunWidth(jk, b, k) ==
    LET entries == Base(jk).feature_index_mapping[b]
        finish  == IF k < Len(entries) THEN entries[k + 1][1] ELSE Len(BatchOf(jk, b))
    IN  finish - entries[k][1]

\* the runs the index of the store of jk records for table id df_id
RunsOf(jk, df_id) ==
    {<<b, k>> \in (DOMAIN Base(jk).feature_index_mapping) \X (1..(MaxTables * MaxFeatures)) :
        /\ k <= Len(Base(jk).feature_index_mapping[b])
        /\ Base(jk).feature_index_mapping[b][k][2] = df_id}

RecordedWidth(jk, df_id) ==
    SumOver(RunsOf(jk, df_id),
            [bk \in RunsOf(jk, df_id) |-> RunWidth(jk, bk[1], bk[2])])

\* C1: for every stored column, get_df_by_feature_index(batch id, position in
\* the batch) returns the id of the table that registered the column and the
\* column's own feature name.
C1_ReverseLookup ==
    \A jk \in DOMAIN seller_sketches :
        \A b \in DOMAIN Loader(jk).sketch_x_batch :
            \A q \in 1..Len(Loader(jk).sketch_x_batch[b]) :
                LET name == Loader(jk).sketch_x_batch[b][q][2]
                    lk   == get_df_by_feature_index(Base(jk), b, q - 1)
                IN  /\ lk.err = ""
                    /\ lk.df_id = tables[name[1]].df_id
                    /\ lk.name = name

\* C2: conservation: for every registered table the widths of the runs the
\* index records for it, over all batches, add up to its feature count.
C2_Conservation ==
    \A t \in 1..Len(tables) :
        tables[t].err = "" =>
            \A jk \in tables[t].keys :
                RecordedWidth(jk, tables[t].df_id) = tables[t].n

\* C6: transparent reload: a read of a spilled batch id as the search loop
\* does it, get_sketches(batch_id) for batch_id < get_num_batches(), yields the
\* matrices of the spilled batch.
C6_TransparentReload ==
    \A i \in 1..Len(spilled) :
        /\ spilled[i].batch_id < get_num_batches(Loader(StoreKey))
        /\ get_sketches(Loader(StoreKey), disk, spilled[i].batch_id, FALSE)
               = [err |-> "", sketch_1 |-> spilled[i].saved.sketch_1,
                  sketch_x |-> spilled[i].saved.sketch_x,
                  sketch_x_x |-> spilled[i].saved.sketch_x_x]

\* C7: disk round trip: get_sketches(batch_id, from_disk=True) returns, for
\* every batch ever spilled, the matrices it had just before the spill.
C7_DiskRoundTrip ==
    \A i \in 1..Len(spilled) :
        get_sketches(Loader(StoreKey), disk, spilled[i].batch_id, TRUE)
            = [err |-> "", sketch_1 |-> spilled[i].saved.sketch_1,
               sketch_x |-> spilled[i].saved.sketch_x,
               sketch_x_x |-> spilled[i].saved.sketch_x_x]

\* C8: every batch id lives in exactly one tier: never both in memory and on
\* disk.
C8_OneTier ==
    \A jk \in DOMAIN seller_sketches :
        \A b \in DOMAIN Loader(jk).sketch_x_batch : b \notin DOMAIN disk

\* the capacity _register_df tests against
Capacity(jk) == Min(Base(jk).gpu_batch_size, Base(jk).ram_batch_size)

\* the widest matrix register_this_seller hands to _register_df for a table
\* of n feature columns
PartitionWidth(jk, n) == Min(n, Base(jk).ram_batch_size - 1)

SearchReturns == run.pc = "key" /\ run.kpos > Len(buyer.join_keys)

\* C3: exclusion masking: the (join key, batch, index) search_one_iteration
\* returns was not selected by an earlier iteration, so no index is selected
\* twice for one join key and batch.
C3_ExclusionMasking ==
    /\ (SearchReturns /\ run.best_r_squared_ind # -1) =>
           run.best_r_squared_ind \notin
               Range(ExcludeIndices(engine.aug_seller_feature_ind,
                                    run.best_join_key, run.best_batch_id))
    /\ \A jk \in DOMAIN engine.aug_seller_feature_ind :
           \A b \in DOMAIN engine.aug_seller_feature_ind[jk] :
               LET sel == engine.aug_seller_feature_ind[jk][b]
               IN  \A i, j \in 1..Len(sel) : sel[i] = sel[j] => i = j

\* C3 witness: in a later iteration a feature selected earlier had the highest
\* score of its batch, above the running best, and the search returns another
\* feature of a batch that holds selected features
C3_Witness ==
    /\ SearchReturns
    /\ run.i >= 1
    /\ run.shadowed
    /\ run.best_r_squared_ind # -1
    /\ ExcludeIndices(engine.aug_seller_feature_ind,
                      run.best_join_key, run.best_batch_id) # <<>>

\* C4: singular handling: a failed inversion makes search_one_iteration raise
\* neither while it records the feature nor while it masks the recorded
\* features, every feature found singular is recorded under its batch id, and
\* no feature found singular is returned.
C4_SingularHandling ==
    /\ run.pc = "raised" => run.at \notin {"inversion", "unusable_features"}
    /\ \A f \in engine.singular_seen :
           f[3] \in Range(UnusableOf(engine.unusable_features, f[1], f[2]))
    /\ (SearchReturns /\ run.best_r_squared_ind # -1) =>
           <<run.best_join_key, run.best_batch_id, run.best_r_squared_ind>>
               \notin engine.singular_seen

\* no seller column is stored under any join key of the buyer
NoSellerFeatures ==
    \A k \in 1..Len(buyer.join_keys) :
        \/ buyer.join_keys[k] \notin DOMAIN seller_sketches
        \/ get_num_batches(Loader(buyer.join_keys[k])) = 0

\* C5: termination on an empty market: with no seller feature under the
\* buyer's join keys, start does not raise and ends in its first iteration
\* with an empty plan.
C5_EmptyMarket ==
    (run.pc # "idle" /\ NoSellerFeatures) =>
        /\ run.pc # "raised"
        /\ run.pc = "done" => (run.i = 0 /\ run.returned = <<>>)

\* the feature names of the table of registration call t that are found in
\* the store of jk: in a batch, in the table-feature directory, in a seller entry
TracesOf(jk, t) ==
    {c \in 0..(MaxFeatures - 1) :
        \/ \E b \in DOMAIN Loader(jk).sketch_x_batch :
               \E q \in 1..Len(Loader(jk).sketch_x_batch[b]) :
                   Loader(jk).sketch_x_batch[b][q][2] = <<t, c>>
        \/ \E d \in DOMAIN Base(jk).dfid_feature_mapping :
               <<t, c>> \in Range(Base(jk).dfid_feature_mapping[d])
        \/ \E d \in DOMAIN seller_sketches[jk].sellers :
               <<t, c>> \in Range(seller_sketches[jk].sellers[d].df)}

\* C10: a registration that fails leaves no partial result: no column, no
\* directory entry and no seller entry of the table in any join key's store,
\* and no table id consumed.
C10_NoPartialResult ==
    /\ \A t \in 1..Len(tables) :
           tables[t].err # "" =>
               \A jk \in DOMAIN seller_sketches : TracesOf(jk, t) = {}
    /\ last.op = "register_seller" =>
           seller_id = Cardinality({t \in 1..Len(tables) : tables[t].err = ""})

\* start has ended: it returned or it raised
Ended == run.pc \in {"done", "raised"}

\* C11: whenever start ends, by using up its budget, by an iteration that
\* finds no feature or by a failing step, it has returned to its caller the
\* plan accumulated so far.
C11_PlanReturned == Ended => run.returned = engine.augplan

\* C13: start returns with the plan the sequence of R^2 values: the baseline
\* of the buyer's registration and one value per successful iteration, so
\* 1 + the plan's length values.
C13_AccReturned ==
    run.pc = "done" => Len(run.returned_acc) = 1 + Len(run.returned)

\* the table whose column is stored at the position search_one_iteration returns
SelectedOwner ==
    Loader(run.best_join_key).sketch_x_batch[run.best_batch_id][run.best_r_squared_ind + 1][2][1]

\* the step appends to the plan one entry for the feature the iteration found,
\* with the id and the name of the table that owns the feature
AppendsOwner ==
    /\ SearchReturns
    /\ run.best_r_squared_ind # -1
    /\ Len(engine'.augplan) = Len(engine.augplan) + 1
    /\ SubSeq(engine'.augplan, 1, Len(engine.augplan)) = engine.augplan
    /\ engine'.augplan[Len(engine'.augplan)][1] = tables[SelectedOwner].df_id
    /\ engine'.augplan[Len(engine'.augplan)][2] = run.i + 1
    /\ engine'.augplan[Len(engine'.augplan)][3] = SelectedOwner

\* C12: the plan is append-only: a step leaves it unchanged, or it is the end
\* of an iteration that found a feature and appends exactly one entry (table
\* id, iteration number, table name, feature name) for the owning table.
C12_AppendOnly == [][engine'.augplan = engine.augplan \/ AppendsOwner]_vars

RECURSIVE Columns(_, _)
Columns(batches, b) ==
    IF b \notin DOMAIN batches THEN <<>>
    ELSE batches[b] \o Columns(batches, b + 1)

\* the columns of one kind of the tables t..Len(tables) registered without an
\* error, in registration order and in their original order
RECURSIVE Registered(_, _)
Registered(kind, t) ==
    IF t > Len(tables) THEN <<>>
    ELSE (IF tables[t].err = "" THEN Matrix(kind, FeatureNames(t, tables[t].n))
          ELSE <<>>) \o Registered(kind, t + 1)

\* the shape C16 gives the batches of one kind
Packed(L, batches, kind) ==
    /\ DOMAIN batches = 0..(get_num_batches(L) - 1)
    /\ \A b \in DOMAIN batches :
           /\ Len(batches[b]) <= L.batch_size
           /\ b < get_num_batches(L) - 1 => Len(batches[b]) = L.batch_size
    /\ Columns(batches, 0) = Registered(kind, 1)

\* C16: greedy packing without spill: every batch has at most batch_size
\* columns, every batch but the last exactly batch_size, the batch ids are
\* 0..n-1 with get_num_batches() = n, and the batches in id order hold the
\* registered tables' columns in registration order, each table's columns
\* contiguous and in their original order.
C16_GreedyPacking ==
    (spilled = <<>> /\ StoreKey \in DOMAIN seller_sketches) =>
        /\ Packed(Loader(StoreKey), Loader(StoreKey).sketch_x_batch, "x")
        /\ Packed(Loader(StoreKey), Loader(StoreKey).sketch_1_batch, "1")
        /\ Packed(Loader(StoreKey), Loader(StoreKey).sketch_x_x_batch, "xx")

\* C16 witness: three tables registered without a spill, a full first batch
\* that holds columns of two tables, and a last batch with space left
C16_Witness ==
    /\ spilled = <<>>
    /\ StoreKey \in DOMAIN seller_sketches
    /\ Len(tables) = MaxTables
    /\ \A t \in 1..Len(tables) : tables[t].err = ""
    /\ get_num_batches(Loader(StoreKey)) >= 2
    /\ \E q \in 2..Len(BatchOf(StoreKey, 0)) :
           BatchOf(StoreKey, 0)[q][2][1] # BatchOf(StoreKey, 0)[1][2][1]
    /\ Len(BatchOf(StoreKey, get_num_batches(Loader(StoreKey)) - 1))
           < Loader(StoreKey).batch_size

\* the batch ids a store can hold within the bounds
BatchIds == 0..(MaxTables * MaxFeatures)

\* a step leaves every stored column of the store of jk at its batch id and
\* position
ColumnsStay(jk) ==
    \A b \in BatchIds :
        \A q \in 1..Len(BatchOf(jk, b)) :
            /\ q <= Len(BatchOf(jk, b)')
            /\ BatchOf(jk, b)'[q] = BatchOf(jk, b)[q]

\* a step leaves every index entry of the store of jk in place and only
\* appends entries
EntriesStay(jk) ==
    \A b \in DOMAIN Base(jk).feature_index_mapping :
        /\ b \in DOMAIN Base(jk)'.feature_index_mapping
        /\ Len(Base(jk)'.feature_index_mapping[b])
               >= Len(Base(jk).feature_index_mapping[b])
        /\ SubSeq(Base(jk)'.feature_index_mapping[b], 1,
                  Len(Base(jk).feature_index_mapping[b]))
               = Base(jk).feature_index_mapping[b]

\* a step of the store only appends
OnlyAppends ==
    StoreKey \in DOMAIN seller_sketches =>
        (ColumnsStay(StoreKey) /\ EntriesStay(StoreKey))

\* C17: batches are never rebalanced: a registration, with or without spill,
\* leaves every column already stored at its batch id and position and every
\* feature index entry unchanged; it only appends columns and entries.
C17_NeverRebalanced ==
    [][OnlyAppends]_vars

\* the position after the run that entry k of the index list `entries` of a
\* batch of `width` columns opens
RunEnd(entries, k, width) ==
    IF k < Len(entries) THEN entries[k + 1][1] ELSE width

\* the shape C18 gives the index list `entries` of the batch `batch`
IndexOrdered(entries, batch) ==
    /\ Len(entries) >= 1
    /\ entries[1][1] = 0
    /\ \A k \in 1..(Len(entries) - 1) : entries[k][1] < entries[k + 1][1]
    /\ \A k \in 1..Len(entries) :
           /\ entries[k][1] < Len(batch)
           /\ \A q \in (entries[k][1] + 1)..RunEnd(entries, k, Len(batch)) :
                  tables[batch[q][2][1]].df_id = entries[k][2]

\* C18: every batch's feature index list is increasing in start_offset, its
\* first entry has start_offset 0, and each entry's start_offset is the
\* position in the batch where a run of that entry's table begins.
C18_IndexOrdered ==
    \A jk \in DOMAIN seller_sketches :
        \A b \in DOMAIN Base(jk).feature_index_mapping :
            IndexOrdered(Base(jk).feature_index_mapping[b], BatchOf(jk, b))

\* C18 witness: a batch shared by three tables, with three index entries
C18_Witness ==
    \E jk \in DOMAIN seller_sketches :
        \E b \in DOMAIN Base(jk).feature_index_mapping :
            /\ Len(Base(jk).feature_index_mapping[b]) = MaxTables
            /\ {Base(jk).feature_index_mapping[b][k][2] : k \in 1..MaxTables}
                   = 0..(MaxTables - 1)

(* ====================== properties of _calibrate ====================== *)
\* the rows of the table at hand whose key is the r-th domain row
RowsAt(r) ==
    {i \in 1..Len(frame.df) :
        KeyOf(frame.df[i], frame.join_keys)
            = multi_index(frame.key_domains, frame.join_keys)[r]}

\* the fraction f is the quotient n / d, for d > 0
IsQuotient(f, n, d) == f[2] > 0 /\ f[1] * d = n * f[2]

\* the entry f of SumX or SumXX for a domain row with `count` table rows whose
\* values add up to `sum`
SumEntry(f, sum, count) ==
    IF count = 0 THEN f = <<0, 1>>
    ELSE IsQuotient(f, sum, IF frame.normalized THEN count ELSE 1)

\* C14: sketch correctness of _calibrate: for every domain row r and feature
\* c, SumX[r,c] and SumXX[r,c] are the sum and the sum of squares of column c
\* over the table rows whose key is r, divided by the group count when
\* normalized, and 0 for domain rows absent from the table; Ones[r,c] is the
\* observed group count of r when not normalized, hence 0 for absent rows,
\* and 1 for every row when normalized.
C14_SketchCorrect ==
    sketch.called =>
        \A r \in 1..Len(sketch.out.seller_x) :
            \A c \in 1..Width(frame.df) :
                /\ SumEntry(sketch.out.seller_x[r][c],
                            SumOver(RowsAt(r), [i \in RowsAt(r) |-> frame.df[i].v[c]]),
                            Cardinality(RowsAt(r)))
                /\ SumEntry(sketch.out.seller_x_x[r][c],
                            SumOver(RowsAt(r),
                                    [i \in RowsAt(r) |->
                                        frame.df[i].v[c] * frame.df[i].v[c]]),
                            Cardinality(RowsAt(r)))
                /\ sketch.out.seller_1[r][c]
                       = (IF frame.normalized THEN 1 ELSE Cardinality(RowsAt(r)))

\* the domain of the i-th join key of the table at hand
DomainOf(i) == frame.key_domains[frame.join_keys[i]]

\* the number of elements of the cartesian product of the domains of the join
\* keys from the i-th on
RECURSIVE ProductSize(_)
ProductSize(i) ==
    IF i > Len(frame.join_keys) THEN 1 ELSE Len(DomainOf(i)) * ProductSize(i + 1)

\* the r-th element of the cartesian product in the domains' order, the first
\* join key varying slowest
ProductElement(r) ==
    [i \in 1..Len(frame.join_keys) |->
        DomainOf(i)[(((r - 1) \div ProductSize(i + 1)) % Len(DomainOf(i))) + 1]]

\* the rows of the table at hand whose key is the r-th element of the product
RowsFor(r) ==
    {i \in 1..Len(frame.df) :
        \A k \in 1..Len(frame.join_keys) :
            frame.df[i].key[frame.join_keys[k]] = ProductElement(r)[k]}

\* the row counts of the matrices _calibrate returned
RowCounts ==
    {Len(sketch.out.seller_x), Len(sketch.out.seller_x_x), Len(sketch.out.seller_1)}
        \cup (IF sketch.out.seller_x_y = None THEN {}
              ELSE {Len(sketch.out.seller_x_y)})

\* C19: every matrix _calibrate returns has exactly one row per element of the
\* cartesian product of the join-key domains, in the domains' order, whatever
\* key values occur in the table: row r holds what the table rows whose key is
\* the r-th element contribute and nothing else, so that two sketches over
\* the same domains have the same row count and row order.
C19_DomainRows ==
    sketch.called =>
        /\ RowCounts = {ProductSize(1)}
        /\ \A r \in 1..ProductSize(1) :
               \A c \in 1..Width(frame.df) :
                   /\ SumEntry(sketch.out.seller_x[r][c],
                               SumOver(RowsFor(r), [i \in RowsFor(r) |-> frame.df[i].v[c]]),
                               Cardinality(RowsFor(r)))
                   /\ SumEntry(sketch.out.seller_x_x[r][c],
                               SumOver(RowsFor(r),
                                       [i \in RowsFor(r) |->
                                           frame.df[i].v[c] * frame.df[i].v[c]]),
                               Cardinality(RowsFor(r)))
        /\ sketch.out.seller_x_y # None =>
               \A r \in 1..ProductSize(1) :
                   RowsFor(r) = {} =>
                       \A k \in 1..Len(sketch.out.seller_x_y[r]) :
                           sketch.out.seller_x_y[r][k] = <<0, 1>>

\* C19 witness: a buyer table over two join keys, the domain of the first not
\* in ascending order, with one row inside the domain and one outside it
C19_Witness ==
    /\ sketch.called
    /\ sketch.out.seller_x_y # None
    /\ Len(frame.join_keys) = 2
    /\ DomainOf(1)[1] > DomainOf(1)[2]
    /\ Len(frame.df) = 2
    /\ \E r \in 1..ProductSize(1) : RowsFor(r) = {1}
    /\ \A r \in 1..ProductSize(1) : 2 \notin RowsFor(r)

(* ================== properties of the closed-form score ================= *)
\* the unsketched data: the pairs of a buyer row and a seller row with the
\* same join key value
Joined ==
    {p \in (1..Len(frame.buyer_df)) \X (1..Len(frame.seller_df)) :
        frame.buyer_df[p[1]].key = frame.seller_df[p[2]].key}

JoinedX(p) == frame.seller_df[p[2]].v[1]
JoinedY(p) == frame.buyer_df[p[1]].v[1]

\* n times the sum of squared deviations of the joined rows, for the sums of
\* a column or of two columns
Deviation(n, sum_ab, sum_a, sum_b) == n * sum_ab - sum_a * sum_b

OlsSxx ==
    Deviation(Cardinality(Joined),
              SumOver(Joined, [p \in Joined |-> JoinedX(p) * JoinedX(p)]),
              SumOver(Joined, [p \in Joined |-> JoinedX(p)]),
              SumOver(Joined, [p \in Joined |-> JoinedX(p)]))

OlsSyy ==
    Deviation(Cardinality(Joined),
              SumOver(Joined, [p \in Joined |-> JoinedY(p) * JoinedY(p)]),
              SumOver(Joined, [p \in Joined |-> JoinedY(p)]),
              SumOver(Joined, [p \in Joined |-> JoinedY(p)]))

OlsSxy ==
    Deviation(Cardinality(Joined),
              SumOver(Joined, [p \in Joined |-> JoinedX(p) * JoinedY(p)]),
              SumOver(Joined, [p \in Joined |-> JoinedX(p)]),
              SumOver(Joined, [p \in Joined |-> JoinedY(p)]))

\* the least-squares fit of y on x with an intercept has an R^2 on the joined
\* rows: x and y both vary
OlsDefined == OlsSxx > 0 /\ OlsSyy > 0

\* its R^2: 1 - RSS / TSS = Sxy^2 / (Sxx * Syy)
OlsRSquared == Quotient(OlsSxy * OlsSxy, OlsSxx * OlsSyy)

\* the floating tolerance of the comparison
Tolerance == <<1, 1000>>

\* |a - b| <= Tolerance for finite a and b
Within(a, b) ==
    /\ Finite(a)
    /\ Minus(a, b)[1] * Tolerance[2] <= Tolerance[1] * Minus(a, b)[2]
    /\ Minus(b, a)[1] * Tolerance[2] <= Tolerance[1] * Minus(b, a)[2]

\* C15: regression equivalence: for a single seller feature and a
\* single-column buyer target, the r_squared that search_one_iteration
\* computes in closed form from the sketches equals, within the tolerance,
\* the R^2 of the least-squares fit on the buyer and seller rows joined on
\* the join key.
C15_RegressionEquivalence ==
    (sketch.scored /\ OlsDefined) => Within(sketch.r_squared, OlsRSquared)

(* ====================== properties of the search ======================= *)
\* C21: when search_one_iteration returns a feature, its score is the maximum
\* over the candidates of every join key and every batch that are neither
\* already selected for their join key and batch nor unusable: no such
\* candidate has a strictly higher score.
C21_GlobalMaximum ==
    (SearchReturns /\ run.best_r_squared_ind # -1) =>
        run.best_r_squared >= run.top

\* the indices masked as unusable by the evaluation of a batch that a step
\* completes are indices whose own matrix was found singular
MasksOwn ==
    (run.pc = "batch" /\ run'.pc # "raised"
        /\ run.batch_id \in DOMAIN engine'.unusable_features) =>
        \A k \in 1..Len(engine'.unusable_features[run.batch_id]) :
            <<buyer.join_keys[run.kpos], run.batch_id,
              engine'.unusable_features[run.batch_id][k]>> \in engine'.singular_seen

\* C25: a candidate at (join key, batch id, feature index) is masked as
\* unusable only if the matrix of that same candidate was found singular: an
\* index flagged under one join key does not exclude the feature at the same
\* batch id and index of another join key's store.
C25_MaskOnlyOwn == [][MasksOwn]_vars

\* the running best of an iteration names a feature only with a score above
\* 0 and below 1, and an iteration none of whose non-masked candidates scores
\* above 0 returns no feature
AboveZero ==
    /\ run.best_r_squared_ind # -1 =>
           (run.best_r_squared > 0 /\ run.best_r_squared < One)
    /\ run.best_r_squared_ind = -1 => run.best_r_squared = 0
    /\ (SearchReturns /\ ~run.positive) => run.best_r_squared_ind = -1

\* start ends the search, with the plan as it is, when the iteration returned
\* no feature
EndsSearch ==
    (SearchReturns /\ run.best_r_squared_ind = -1) =>
        (run'.pc = "done" /\ engine' = engine /\ run'.returned = engine.augplan)

\* C26: a feature is selected only if its score is strictly greater than 0:
\* the running best starts at 0 and is replaced only by a strictly larger
\* score, so when every non-masked candidate scores 0 or less (NaN and scores
\* of 1 or more count as minus infinity) search_one_iteration returns no
\* feature and start ends the search.
C26_StrictlyAboveZero == []AboveZero /\ [][EndsSearch]_vars

\* C26 witness: start ended with an empty plan in its first iteration
\* although a candidate scored exactly 0
C26_Witness ==
    /\ run.pc = "done"
    /\ run.i = 0
    /\ run.top = 0
    /\ ~run.positive
    /\ run.returned = <<>>

\* a call of start(iter = n) is in one of at most n iterations and its plan
\* has at most n entries
WithinBudget ==
    run.pc # "idle" =>
        /\ run.i <= run.n
        /\ run.pc \in {"key", "batch"} => run.i < run.n
        /\ Len(engine.augplan) <= run.n

\* a step starts at most the next iteration; after an iteration that found no
\* feature, and after the call ended, no iteration is started and the plan
\* stays as it is
NoFurtherIteration ==
    /\ run.pc # "idle" => run'.i \in {run.i, run.i + 1}
    /\ (SearchReturns /\ run.best_r_squared_ind = -1) =>
           (run'.pc = "done" /\ run'.i = run.i)
    /\ Ended => (run'.pc = run.pc /\ run'.i = run.i
                    /\ engine'.augplan = engine.augplan)

\* C22: SearchEngine.start(iter = n) always terminates: it runs at most n
\* iterations, after the first iteration that finds no feature it runs no
\* further iteration, and one call adds at most n entries to the plan.
C22_Terminates ==
    /\ []WithinBudget
    /\ [][NoFurtherIteration]_vars
    /\ (run.pc # "idle") ~> Ended

\* C22 witness: start(MaxIter) ended before its budget, after an iteration
\* that found no feature, with the entries of the iterations before it
C22_Witness ==
    /\ run.pc = "done"
    /\ run.n = MaxIter
    /\ run.i = MaxIter - 1
    /\ run.best_r_squared_ind = -1
    /\ Len(run.returned) = MaxIter - 1

(* ------------------- the direct-mode normal equations ------------------- *)
\* The assembly of XTX and XTY (lines 804-856) for a buyer sketch of d columns
\* with the target at position y_ind.  An entry holds the name of the term
\* written to it: <<"c">>, <<"x">>, <<"x_x">>, <<"y", k>>, <<"y_y", k>> and
\* <<"x_y", k>> for the sums over buyer column k, and <<"cross", col>> for the
\* sum over column col of the flattened cross-term sketch buyer_x_y.
MaxColumns == 5    \* most columns of the buyer sketch (d)

Zero == <<"0">>

\* the formula of the comment at line 843, read as an index
x_y_ind_comment(d, i, j) == (((2 * d - i) * (i - 1)) \div 2) + j - i

\* line 845: x_y_ind = int((2*d-i-1)*i/2+j-i)-1; the sum is never negative, so
\* int() rounds the half down
x_y_ind(d, i, j) == ((((2 * d - i - 1) * i) + 2 * (j - i)) \div 2) - 1

\* a torch index along a dimension of size n: negative indices count from the
\* end, anything else outside is an IndexError
Inside(k, n) == k >= -n /\ k < n

Wrap(k, n) == IF k < 0 THEN k + n ELSE k

\* XTX[:, r, c] = t, with the loop position recorded in the history
SetXTX(s, r, c, t) ==
    IF s.pc = "raised" THEN s
    ELSE IF ~(Inside(r, s.d + 1) /\ Inside(c, s.d + 1))
         THEN [s EXCEPT !.pc = "raised"]
         ELSE [s EXCEPT !.XTX[Wrap(r, s.d + 1)][Wrap(c, s.d + 1)] = t,
                        !.written = @ \cup {[m |-> "XTX", r |-> Wrap(r, s.d + 1),
                                             c |-> Wrap(c, s.d + 1), t |-> t,
                                             i |-> s.i, j |-> s.j]}]

\* XTX[:, r, c] = XTX[:, c, r] = t
SetBoth(s, r, c, t) == SetXTX(SetXTX(s, r, c, t), c, r, t)

\* XTY[:, r, 0] = t
SetXTY(s, r, t) ==
    IF s.pc = "raised" THEN s
    ELSE IF ~Inside(r, s.d + 1)
         THEN [s EXCEPT !.pc = "raised"]
         ELSE [s EXCEPT !.XTY[Wrap(r, s.d + 1)] = t,
                        !.written = @ \cup {[m |-> "XTY", r |-> Wrap(r, s.d + 1),
                                             c |-> 0, t |-> t,
                                             i |-> s.i, j |-> s.j]}]

\* lines 809-820: the zero matrices and the entries of the seller feature
zeros(d, y_ind) ==
    [called |-> TRUE, pc |-> "column", d |-> d, y_ind |-> y_ind, i |-> -1, j |-> -1,
     XTX |-> [r \in 0..d |-> [c \in 0..d |-> Zero]],
     XTY |-> [r \in 0..d |-> Zero],
     written |-> {}]

seller_entries(s) ==
    SetXTX(SetBoth(SetXTX(s, 0, 0, <<"c">>), 0, 1, <<"x">>), 1, 1, <<"x_x">>)

\* lines 830-840: the entries of buyer column i, written at row and column p
column_entries(s, p) ==
    SetBoth(SetBoth(SetXTX(s, p, p, <<"y_y", s.i>>), 1, p, <<"x_y", s.i>>),
            0, p, <<"y", s.i>>)

buyer_column(s) ==
    IF s.i = s.y_ind
    THEN SetXTY(SetXTY(s, 0, <<"y", s.i>>), 1, <<"x_y", s.i>>)
    ELSE IF s.i < s.y_ind THEN column_entries(s, s.i + 2)
                          ELSE column_entries(s, s.i + 1)

\* lines 846-856: where the cross term of columns i and j goes
cross_entry(s, x_y_) ==
    IF s.i = s.y_ind THEN SetXTY(s, s.j + 1, x_y_)
    ELSE IF s.j = s.y_ind THEN SetXTY(s, s.i + 2, x_y_)
    ELSE IF s.i > s.y_ind THEN SetBoth(s, s.i + 1, s.j + 1, x_y_)
    ELSE IF s.i < s.y_ind /\ s.j > s.y_ind THEN SetBoth(s, s.i + 2, s.j + 1, x_y_)
    ELSE SetBoth(s, s.i + 2, s.j + 2, x_y_)

\* line 845: buyer_x_y[:, x_y_ind:x_y_ind+1] is an empty slice outside the
\* sketch, and its product with seller_1 fails
cross_term(s) ==
    IF x_y_ind(s.d, s.i, s.j) \in 0..(Len(combinations(s.d)) - 1)
    THEN cross_entry(s, <<"cross", x_y_ind(s.d, s.i, s.j)>>)
    ELSE [s EXCEPT !.pc = "raised"]

\* the position of the loops after the body at (i, j) ran; j = i stands for
\* the part of the outer body before `for j in range(i+1, d)`
advance(s) ==
    IF s.pc = "raised" THEN s
    ELSE IF s.j + 1 < s.d THEN [s EXCEPT !.pc = "cross", !.j = @ + 1]
    ELSE IF s.i + 1 < s.d THEN [s EXCEPT !.pc = "column", !.j = -1]
    ELSE [s EXCEPT !.pc = "assembled"]

inner(s) == advance([s EXCEPT !.j = s.i])

InitAssemble ==
    /\ gpu_ram = <<MaxBatch, MaxBatch>>
    /\ seller_sketches = EmptyDict
    /\ disk = EmptyDict
    /\ seller_id = 0
    /\ seller_id_to_df_and_name = <<>>
    /\ buyer = NoBuyer
    /\ market_augplan_acc = <<>>
    /\ engine = NoEngine
    /\ run = Idle
    /\ tables = <<>>
    /\ spilled = <<>>
    /\ last = NoCall
    /\ \E d \in 1..MaxColumns :
           frame \in [held : {TRUE}, d : {d}, y_ind : 0..(d - 1)]
    /\ sketch = NoSketch

\* lines 804-820
AssembleSeller ==
    /\ frame.held
    /\ ~sketch.called
    /\ sketch' = seller_entries(zeros(frame.d, frame.y_ind))
    /\ UNCHANGED <<gpu_ram, frame, storeVars, marketVars, searchVars>>

\* lines 821-840: the next iteration of `for i in range(d)` up to its inner loop
AssembleColumn ==
    /\ sketch.called
    /\ sketch.pc = "column"
    /\ sketch' = inner(buyer_column([sketch EXCEPT !.i = @ + 1]))
    /\ UNCHANGED <<gpu_ram, frame, storeVars, marketVars, searchVars>>

\* lines 844-856: one iteration of `for j in range(i+1, d)`
AssembleCross ==
    /\ sketch.called
    /\ sketch.pc = "cross"
    /\ sketch' = advance(cross_term(sketch))
    /\ UNCHANGED <<gpu_ram, frame, storeVars, marketVars, searchVars>>

NextAssemble ==
    \/ AssembleSeller
    \/ AssembleColumn
    \/ AssembleCross

SpecAssemble == InitAssemble /\ [][NextAssemble]_vars

(* ------------------- properties of the normal equations ------------------ *)
\* the row and column of the matrix that belong to the non-target column k
Row(k, y_ind) == IF k < y_ind THEN k + 2 ELSE k + 1

\* the column of the cross-term sketch that holds the product of the buyer
\* columns i < j: _calibrate appends them in the order of combinations
CrossColumn(d, i, j) ==
    (CHOOSE k \in 1..Len(combinations(d)) : combinations(d)[k] = <<i + 1, j + 1>>) - 1

\* the loop body for the pair (i, j) has run
PairDone(s, i, j) ==
    \/ s.pc = "assembled"
    \/ i < s.i
    \/ i = s.i /\ (s.pc = "column" \/ j < s.j)

\* a write of the inner loop is the one the pair asks for
CrossWrite(w, d, y_ind) ==
    /\ w.t = <<"cross", CrossColumn(d, w.i, w.j)>>
    /\ IF w.i = y_ind THEN w.m = "XTY" /\ w.r = Row(w.j, y_ind)
       ELSE IF w.j = y_ind THEN w.m = "XTY" /\ w.r = Row(w.i, y_ind)
       ELSE /\ w.m = "XTX"
            /\ <<w.r, w.c>> \in {<<Row(w.i, y_ind), Row(w.j, y_ind)>>,
                                 <<Row(w.j, y_ind), Row(w.i, y_ind)>>}

\* the entries of a pair whose body has run hold its cross term
CrossHeld(s, i, j) ==
    IF i = s.y_ind THEN s.XTY[Row(j, s.y_ind)] = <<"cross", CrossColumn(s.d, i, j)>>
    ELSE IF j = s.y_ind THEN s.XTY[Row(i, s.y_ind)] = <<"cross", CrossColumn(s.d, i, j)>>
    ELSE /\ s.XTX[Row(i, s.y_ind)][Row(j, s.y_ind)] = <<"cross", CrossColumn(s.d, i, j)>>
         /\ s.XTX[Row(j, s.y_ind)][Row(i, s.y_ind)] = <<"cross", CrossColumn(s.d, i, j)>>

\* C24: for every d, every position y_ind of the target and every pair i < j
\* of buyer columns, the direct-mode assembly reads the cross term from the
\* column of the cross-term sketch that holds the pair in the order _calibrate
\* generated, writes it to XTY when i or j is the target and to the two
\* symmetric entries of XTX at the rows of i and j otherwise (row k + 2 for a
\* column before the target, k + 1 for one after it), never writes outside the
\* matrices, and never writes two different terms to the same entry.
C24_IndexBookkeeping ==
    sketch.called =>
        /\ sketch.pc # "raised"
        /\ \A w \in sketch.written :
               /\ w.r \in 0..sketch.d /\ w.c \in 0..sketch.d
               /\ w.j > w.i => CrossWrite(w, sketch.d, sketch.y_ind)
        /\ \A i \in 0..(sketch.d - 1), j \in 0..(sketch.d - 1) :
               (i < j /\ PairDone(sketch, i, j)) => CrossHeld(sketch, i, j)
        /\ \A w1 \in sketch.written, w2 \in sketch.written :
               (w1.m = w2.m /\ w1.r = w2.r /\ w1.c = w2.c) => w1.t = w2.t

\* an assembly that ran to its end with columns on both sides of the target,
\* two before it and two after it
C24_Witness ==
    /\ sketch.called /\ sketch.pc = "assembled"
    /\ sketch.y_ind >= 2 /\ sketch.d >= sketch.y_ind + 3
    /\ \E w \in sketch.written : w.m = "XTX" /\ w.j > w.i /\ w.i > sketch.y_ind
    /\ \E w \in sketch.written : w.m = "XTX" /\ w.j > w.i /\ w.j < sketch.y_ind

(* --------------------- folding the selected feature --------------------- *)
\* _update_residual on table data: the buyer table of the join key and the
\* target column, the seller table of the join key and the selected feature.
\* A missing value (NaN) of a column is NotFinite.  No column name of these
\* tables contains '_left' or '_right', so that lines 1006-1007 keep every
\* column of the merge under its name.

\* lines 999-1000: seller_df.groupby(join_key).agg({feature: 'mean'}), as
\* key -> mean
seller_df_agg(seller_df, join_keys) ==
    [g \in Groups(seller_df, join_keys) |->
        Quotient(groupby_sum(seller_df, join_keys)[g][1],
                 groupby_size(seller_df, join_keys)[g])]

\* line 1004: pd.merge(buyer, seller_df_agg, how='left', ...): the keys of
\* seller_df_agg are unique, so every buyer row comes out once, in order, with
\* the mean of its key or a missing value
merge_left(buyer_df, agg, join_keys) ==
    [i \in 1..Len(buyer_df) |->
        [key |-> buyer_df[i].key,
         v   |-> buyer_df[i].v,
         x   |-> IF KeyOf(buyer_df[i], join_keys) \in DOMAIN agg
                 THEN agg[KeyOf(buyer_df[i], join_keys)]
                 ELSE NotFinite]]

\* joined_df[col].mean(): the mean of the values that are not missing, and a
\* missing value when there is none
RECURSIVE sum_present(_, _)
sum_present(joined_df, n) ==
    IF n = 0 THEN Whole(0)
    ELSE IF Finite(joined_df[n].x)
         THEN Plus(sum_present(joined_df, n - 1), joined_df[n].x)
         ELSE sum_present(joined_df, n - 1)

column_mean(joined_df) ==
    Over(sum_present(joined_df, Len(joined_df)),
         Whole(Cardinality({i \in 1..Len(joined_df) : Finite(joined_df[i].x)})))

\* lines 1010-1012: joined_df[col].fillna(joined_df[col].mean(), inplace=True)
fillna(joined_df, mean) ==
    [i \in 1..Len(joined_df) |->
        [joined_df[i] EXCEPT !.x = IF Finite(@) THEN @ ELSE mean]]

fill_with_mean(joined_df) == fillna(joined_df, column_mean(joined_df))

\* lines 992-1014: updated_buyer
updated_buyer(buyer_df, seller_df, join_keys) ==
    fill_with_mean(merge_left(buyer_df, seller_df_agg(seller_df, join_keys), join_keys))

\* lines 1023-1024 and 41: register_buyer fits a LinearRegression on the
\* updated table, which rejects a missing value
register_updated_err(updated) ==
    IF \E i \in 1..Len(updated) : ~Finite(updated[i].x) THEN "ValueError" ELSE ""

InitFold ==
    /\ gpu_ram = <<MaxBatch, MaxBatch>>
    /\ seller_sketches = EmptyDict
    /\ disk = EmptyDict
    /\ seller_id = 0
    /\ seller_id_to_df_and_name = <<>>
    /\ buyer = NoBuyer
    /\ market_augplan_acc = <<>>
    /\ engine = NoEngine
    /\ run = Idle
    /\ tables = <<>>
    /\ spilled = <<>>
    /\ last = NoCall
    /\ frame \in [held : {TRUE}, buyer_df : Frames(<<"k1">>, 1),
                  seller_df : Frames(<<"k1">>, 1), join_keys : {<<"k1">>},
                  key_domains : ScoreDomains, fit_by_residual : BOOLEAN]
    /\ sketch = [called |-> FALSE, calibrated |-> {}, scored |-> FALSE,
                 buyer |-> Unsketched, seller |-> Unsketched,
                 r_squared |-> NotFinite,
                 folded |-> FALSE, err |-> "", updated_buyer |-> <<>>]

\* lines 914-915, 942 and 968-988: the one candidate is selected when its score
\* is above 0 and below 1, and start calls _update_residual.  The buyer was
\* registered with the default fit_by_residual=False, so that an engine in
\* residual mode finds buyer_dataset_for_residual = None (lines 993-994)
Fold ==
    /\ sketch.scored
    /\ ~sketch.folded
    /\ Finite(sketch.r_squared)
    /\ sketch.r_squared[1] > 0
    /\ sketch.r_squared[1] < sketch.r_squared[2]
    /\ sketch' =
           IF frame.fit_by_residual
           THEN [sketch EXCEPT !.folded = TRUE, !.err = "TypeError"]
           ELSE [sketch EXCEPT
                    !.folded = TRUE,
                    !.updated_buyer = updated_buyer(frame.buyer_df, frame.seller_df,
                                                    frame.join_keys),
                    !.err = register_updated_err(
                                updated_buyer(frame.buyer_df, frame.seller_df,
                                              frame.join_keys))]
    /\ UNCHANGED <<gpu_ram, frame, storeVars, marketVars, searchVars>>

NextFold ==
    \/ CalibrateBuyer
    \/ CalibrateSeller
    \/ ScoreBatch
    \/ Fold

SpecFold == InitFold /\ [][NextFold]_vars

(* ------------------------- properties of the fold ------------------------ *)
\* the seller rows with the key of buyer row i
SellerRows(i) ==
    {k \in 1..Len(frame.seller_df) :
        frame.seller_df[k].key[frame.join_keys[1]]
            = frame.buyer_df[i].key[frame.join_keys[1]]}

\* the mean of the selected feature over the seller rows of buyer row i
SellerMean(i) ==
    Quotient(SumOver(SellerRows(i), [k \in SellerRows(i) |-> frame.seller_df[k].v[1]]),
             Cardinality(SellerRows(i)))

\* the buyer rows that have a seller row
Matched == {i \in 1..Len(frame.buyer_df) : SellerRows(i) # {}}

RECURSIVE SumFractions(_, _)
SumFractions(S, f) ==
    IF S = {} THEN Whole(0)
    ELSE Plus(f[CHOOSE y \in S : TRUE],
              SumFractions(S \ {CHOOSE y \in S : TRUE}, f))

\* the mean of the new column over the rows the join filled
NewColumnMean ==
    Over(SumFractions(Matched, [i \in Matched |-> SellerMean(i)]),
         Whole(Cardinality(Matched)))

\* the merge of _update_residual ran
Folded == sketch.folded /\ sketch.err # "TypeError"

LeftJoinMean ==
    /\ Len(sketch.updated_buyer) = Len(frame.buyer_df)
    /\ \A i \in 1..Len(frame.buyer_df) :
           /\ sketch.updated_buyer[i].key = frame.buyer_df[i].key
           /\ sketch.updated_buyer[i].v = frame.buyer_df[i].v
           /\ i \in Matched => sketch.updated_buyer[i].x = SellerMean(i)
           /\ i \notin Matched =>
                  /\ Finite(sketch.updated_buyer[i].x)
                  /\ sketch.updated_buyer[i].x = NewColumnMean

\* C23: folding the selected feature into the buyer is a left join against
\* the seller table aggregated to one row per key value by mean: the buyer
\* keeps exactly its rows and columns and gains the feature column, and a buyer
\* row whose key has no seller row gets the mean of the new column, never a
\* missing value.
C23_LeftJoinMean == Folded => LeftJoinMean

\* the same, for a buyer of which at least one row has a seller row
C23_LeftJoinMeanOfMatched == (Folded /\ Matched # {}) => LeftJoinMean

\* a fold in which one buyer row was filled with the mean of the other
C23_Witness ==
    /\ Folded
    /\ Matched # {}
    /\ \E i \in 1..Len(frame.buyer_df) : i \notin Matched

====
